---- MODULE Spec2Model ----
(***************************************************************************)
(* Model of the query-normalization and filter-adaptation core of the      *)
(* Neon-Goals-Service scrapers: the model-name normalizer                  *)
(* (scripts/model_mappings.py), the five per-retailer adapters             *)
(* (scripts/scrape-*.py), the query parser with its LLM step and its        *)
(* deterministic pattern fallback (scripts/parse_vehicle_query.py), the    *)
(* loading of the retailers' filter catalogs, the WireGuard VPN manager    *)
(* (scripts/vpn_manager.py) and the scraper worker (worker/main.py).       *)
(*                                                                         *)
(* Python strings are TLA+ strings handled character by character (Len,    *)
(* SubSeq, \o), Python dicts are functions whose DOMAIN is the set of keys *)
(* present, Python lists are sequences.                                    *)
(***************************************************************************)
EXTENDS Integers, Sequences, FiniteSets, TLC

VARIABLES
    n_model,      \* normalizer: the model argument
    n_site,       \* normalizer: the site argument
    n_result,     \* normalizer: last value returned by normalize_model_for_site
    n_should,     \* normalizer: last value returned by should_normalize_model
    n_again,      \* normalizer: normalize_model_for_site applied to n_result
    n_done,       \* normalizer: which of the results have been computed
    a_kind,       \* adapters/parser: "structured" or "query" input
    a_structured, \* adapters: the dict handed to an adapter
    a_query,      \* parser: the free-text query
    a_locals,     \* parser: the values the pattern fallback extracted
    a_called,     \* adapters/parser: the function applied last ("none" at start)
    a_result,     \* adapters/parser: what that function returned
    p_files,      \* parser process: the state of each retailer's catalog file
    p_changes,    \* parser process: how many times a catalog file was changed
    p_env,        \* parser process: openai importable, credentials set
    p_query,      \* parse_query: the query argument
    p_use_llm,    \* parse_query: the use_llm argument
    p_pc,         \* parse_query: position of the call in progress
    p_filters,    \* parse_query_async: the local variable filters
    p_outcome,    \* parse_with_llm: what the completion request came back with
    p_llm,        \* parse_query_async: what parse_with_llm returned
    p_result,     \* parse_query: what the last call returned or raised
    p_loads,      \* parser process: what each load_all_filter_jsons call returned
    c_cache,      \* CarMax scraper process: the global _filter_catalog
    c_returns,    \* CarMax scraper process: what each load_filter_catalog call returned
    v_mgr,        \* VPN: each process's VPNManager (its four state fields)
    v_pc,         \* VPN: each process's position inside rotate_vpn
    v_ret,        \* VPN: each process's last finished call and its return value
    v_lock,       \* VPN: the process that holds the lock on VPN_LOCK_FILE, or "free"
    v_up,         \* VPN: the WireGuard interfaces that are up on the host
    w_vpn,        \* worker: create_vpn_manager finds wg-quick and sudo
    w_body,       \* worker: vehicleFilters and useRetailerFilters of the request
    w_pc,         \* run-all job: position ("off": no worker code in the run)
    w_scraper,    \* run-all job: index in SCRAPER_SCRIPTS of the current scraper
    w_attempt,    \* run_single_scraper: the loop variable attempt
    w_launches,   \* run_single_scraper: the launches of the current call
    w_returned,   \* run-all job: what each run_single_scraper call returned
    w_inputs,     \* run-all job: the input handed to each scraper's process
    w_all_results, \* run-all job: the local list all_results
    w_errors,     \* run-all job: the local list errors
    w_callbacks,  \* worker: the callbacks posted so far
    w_tmp,        \* host: the /tmp/scraper_output_*.json files, oldest first
    s_pc,         \* single-scraper job: position
    s_scraper,    \* single-scraper job: the scraper_name of the request
    s_input       \* single-scraper job: the input handed to the scraper's process

nvars == <<n_model, n_site, n_result, n_should, n_again, n_done>>
avars == <<a_kind, a_structured, a_query, a_locals, a_called, a_result>>
pvars == <<p_files, p_changes, p_env, p_query, p_use_llm, p_pc, p_filters, p_outcome,
           p_llm,
           p_result, p_loads, c_cache, c_returns>>
vars == <<n_model, n_site, n_result, n_should, n_again, n_done,
          a_kind, a_structured, a_query, a_locals, a_called, a_result,
          p_files, p_changes, p_env, p_query, p_use_llm, p_pc, p_filters, p_outcome,
          p_llm,
          p_result, p_loads, c_cache, c_returns,
          v_mgr, v_pc, v_ret, v_lock, v_up,
          w_vpn, w_body, w_pc, w_scraper, w_attempt, w_launches, w_returned,
          w_inputs, w_all_results, w_errors, w_callbacks, w_tmp,
          s_pc, s_scraper, s_input>>
vvars == <<v_mgr, v_pc, v_ret, v_lock, v_up>>
wvars == <<w_vpn, w_body, w_pc, w_scraper, w_attempt, w_launches, w_returned,
           w_inputs, w_all_results, w_errors, w_callbacks, w_tmp,
           s_pc, s_scraper, s_input>>

-----------------------------------------------------------------------------
(* Python string primitives                                                *)

UpperChars == "ABCDEFGHIJKLMNOPQRSTUVWXYZ"
LowerChars == "abcdefghijklmnopqrstuvwxyz"
DigitChars == "0123456789"

Char(s, i) == SubSeq(s, i, i)

\* position of the one-character string c in alphabet, 0 when absent
PosIn(c, alphabet) ==
    IF \E i \in 1..Len(alphabet) : Char(alphabet, i) = c
    THEN CHOOSE i \in 1..Len(alphabet) : Char(alphabet, i) = c
    ELSE 0

\* the concatenation of the strings chars[lo], ..., chars[hi], built by halving
RECURSIVE map_chars(_, _, _)
map_chars(chars, lo, hi) ==
    IF lo > hi THEN ""
    ELSE IF lo = hi THEN chars[lo]
    ELSE LET mid == (lo + hi) \div 2
         IN  map_chars(chars, lo, mid) \o map_chars(chars, mid + 1, hi)

\* the lower-case letter of each upper-case letter, and conversely
UpperToLower ==
    [c \in {Char(UpperChars, i) : i \in 1..26} |-> Char(LowerChars, PosIn(c, UpperChars))]
LowerToUpper ==
    [c \in {Char(LowerChars, i) : i \in 1..26} |-> Char(UpperChars, PosIn(c, LowerChars))]

lower_at(s, i) ==
    IF Char(s, i) \in DOMAIN UpperToLower THEN UpperToLower[Char(s, i)] ELSE Char(s, i)

upper_at(s, i) ==
    IF Char(s, i) \in DOMAIN LowerToUpper THEN LowerToUpper[Char(s, i)] ELSE Char(s, i)

\* str.lower()
lower(s) == map_chars([i \in 1..Len(s) |-> lower_at(s, i)], 1, Len(s))

\* str.upper()
upper(s) == map_chars([i \in 1..Len(s) |-> upper_at(s, i)], 1, Len(s))

\* s.startswith(p)
startswith(s, p) == Len(p) <= Len(s) /\ SubSeq(s, 1, Len(p)) = p

\* the least element of a non-empty set of integers
least(S) == CHOOSE i \in S : \A j \in S : i <= j

\* str.replace(old, new) for a non-empty old, from position i on: the
\* leftmost occurrence is replaced, the scan resumes after it
RECURSIVE replace_from(_, _, _, _)
replace_from(s, i, old, new) ==
    LET hits == {j \in i..(Len(s) - Len(old) + 1) :
                    SubSeq(s, j, j + Len(old) - 1) = old}
    IN  IF hits = {} THEN SubSeq(s, i, Len(s))
        ELSE SubSeq(s, i, least(hits) - 1) \o new
             \o replace_from(s, least(hits) + Len(old), old, new)

replace(s, old, new) == replace_from(s, 1, old, new)

\* sub in s
contains(s, sub) ==
    \E i \in 1..(Len(s) - Len(sub) + 1) : SubSeq(s, i, i + Len(sub) - 1) = sub

\* sep.join(parts)
RECURSIVE join(_, _)
join(parts, sep) ==
    IF parts = <<>> THEN ""
    ELSE IF Len(parts) = 1 THEN parts[1]
    ELSE parts[1] \o sep \o join(Tail(parts), sep)

\* str(n) for a natural number n
RECURSIVE str(_)
str(n) ==
    IF n < 10 THEN Char(DigitChars, n + 1)
    ELSE str(n \div 10) \o Char(DigitChars, (n % 10) + 1)

-----------------------------------------------------------------------------
(* scripts/model_mappings.py                                               *)

\* SITE_MODEL_MAPPINGS with a slug key that maps back to the display HD name
SITE_MODEL_MAPPINGS_SlugToDisplay ==
    "carmax" :> ("Sierra 3500HD" :> "Sierra 3500" @@
                 "sierra-3500hd" :> "Sierra 3500HD") @@
    "carvana" :> ("Sierra 3500HD" :> "Sierra 3500" @@
                  "sierra-3500hd" :> "Sierra 3500HD") @@
    "default" :> ("Sierra 1500HD" :> "Sierra 1500" @@
                  "Sierra 2500HD" :> "Sierra 2500" @@
                  "Sierra 3500HD" :> "Sierra 3500" @@
                  "Silverado 1500HD" :> "Silverado 1500" @@
                  "Silverado 2500HD" :> "Silverado 2500" @@
                  "Silverado 3500HD" :> "Silverado 3500" @@
                  "F-150 HD" :> "F-150" @@
                  "F-250 HD" :> "F-250" @@
                  "F-350 HD" :> "F-350" @@
                  "Ram 1500 Classic" :> "Ram 1500" @@
                  "Ram 2500 Classic" :> "Ram 2500" @@
                  "Ram 3500 Classic" :> "Ram 3500")

SITE_MODEL_MAPPINGS ==
    "carmax" :> ("Sierra 3500HD" :> "Sierra 3500" @@
                 "sierra-3500hd" :> "sierra-3500") @@
    "carvana" :> ("Sierra 3500HD" :> "Sierra 3500" @@
                  "sierra-3500hd" :> "sierra-3500") @@
    "default" :> ("Sierra 1500HD" :> "Sierra 1500" @@
                  "Sierra 2500HD" :> "Sierra 2500" @@
                  "Sierra 3500HD" :> "Sierra 3500" @@
                  "Silverado 1500HD" :> "Silverado 1500" @@
                  "Silverado 2500HD" :> "Silverado 2500" @@
                  "Silverado 3500HD" :> "Silverado 3500" @@
                  "F-150 HD" :> "F-150" @@
                  "F-250 HD" :> "F-250" @@
                  "F-350 HD" :> "F-350" @@
                  "Ram 1500 Classic" :> "Ram 1500" @@
                  "Ram 2500 Classic" :> "Ram 2500" @@
                  "Ram 3500 Classic" :> "Ram 3500")

SITES_WITH_BOTH_VARIANTS == {"autotrader", "truecar", "cargurus"}

\* site_key_of without the removal of underscores
site_key_of_KeepUnderscore(site) == replace(lower(site), "-", "")

\* site.lower().replace('-', '').replace('_', '')
site_key_of(site) == replace(replace(lower(site), "-", ""), "_", "")

\* model.lower().replace(' ', '-').replace('_', '-')
slugify(value) == replace(replace(lower(value), " ", "-"), "_", "-")

normalize_model_for_site(model, site) ==
    LET site_key == site_key_of(site)
        mappings == IF site_key \in DOMAIN SITE_MODEL_MAPPINGS
                    THEN SITE_MODEL_MAPPINGS[site_key]
                    ELSE SITE_MODEL_MAPPINGS["default"]
        slugified == slugify(model)
    IN  IF site_key \in SITES_WITH_BOTH_VARIANTS THEN model
        ELSE IF model \in DOMAIN mappings THEN mappings[model]
        ELSE IF slugified \in DOMAIN mappings THEN mappings[slugified]
        ELSE model

normalize_models_for_site(models, site) ==
    [i \in 1..Len(models) |-> normalize_model_for_site(models[i], site)]

should_normalize_model(model, site) ==
    LET site_key == site_key_of(site)
        slugified == slugify(model)
        default_mappings == SITE_MODEL_MAPPINGS["default"]
    IN  IF site_key \in SITES_WITH_BOTH_VARIANTS THEN FALSE
        ELSE model \in DOMAIN default_mappings
             \/ slugified \in DOMAIN default_mappings

-----------------------------------------------------------------------------
(* Python values.  A value stored in a dict carries its type, so that      *)
(* truthiness, isinstance and str() act on it as they do in Python.  The   *)
(* elements of a list are plain strings.  A dict is a function from its    *)
(* keys; url_params, whose iteration order the code depends on, also       *)
(* carries its keys in insertion order.                                    *)

PyStr(s) == [type |-> "str", value |-> s]
PyInt(n) == [type |-> "int", value |-> n]
PyList(l) == [type |-> "list", value |-> l]
PyDict(d) == [type |-> "dict", value |-> d]
PyOrderedDict(keys, d) == [type |-> "dict", value |-> d, order |-> keys]
PyNone == [type |-> "NoneType"]
\* an exception leaving the function
PyRaise(e) == [type |-> "raise", value |-> e]

\* bool(v)
truthy(v) ==
    CASE v.type = "str" -> v.value # ""
      [] v.type = "int" -> v.value # 0
      [] v.type = "list" -> v.value # <<>>
      [] v.type = "dict" -> DOMAIN v.value # {}
      [] OTHER -> FALSE

\* d.get(k)
get(d, k) == IF k \in DOMAIN d THEN d[k] ELSE PyNone

\* d.get(k, default)
get_or(d, k, default) == IF k \in DOMAIN d THEN d[k] ELSE default

\* f"{v}" for a string or an integer
fmt(v) == IF v.type = "int" THEN str(v.value) ELSE v.value

\* the one-entry dict {k: v} when cond holds, the empty dict otherwise
entry_if(cond, k, v) == IF cond THEN k :> v ELSE <<>>

\* the list with item appended when cond holds
append_if(cond, list, item) == IF cond THEN Append(list, item) ELSE list

-----------------------------------------------------------------------------
(* scripts/scrape-autotrader.py                                            *)

\* the branch for the {url_params, path_components} format
autotrader_from_retailer_format(structured) ==
    LET base_url == "https://www.autotrader.com"
        path_components == get_or(structured, "path_components", PyDict(<<>>)).value
        url_params == get_or(structured, "url_params", PyOrderedDict(<<>>, <<>>))
        color == get_or(path_components, "color", PyStr("")).value
        make == get_or(path_components, "make", PyStr("")).value
        model == get_or(path_components, "model", PyStr("")).value
        trim == get_or(path_components, "trim", PyStr("")).value
        p0 == <<"cars-for-sale">>
        p1 == append_if(color # "", p0, lower(color))
        p2 == append_if(make # "", p1, lower(make))
        p3 == append_if(model # "", p2, lower(model))
        path_parts == append_if(trim # "", p3, lower(trim))
        url_path == "/" \o join(path_parts, "/")
        kept == SelectSeq(url_params.order, LAMBDA k : truthy(url_params.value[k]))
        params == [i \in 1..Len(kept) |->
                      kept[i] \o "=" \o fmt(url_params.value[kept[i]])]
        has_search_radius ==
            \E i \in 1..Len(params) : contains(params[i], "searchRadius")
        has_zip == \E i \in 1..Len(params) : contains(params[i], "zip=")
        all_params ==
            IF has_search_radius /\ ~has_zip THEN Append(params, "zip=94002")
            ELSE IF ~has_search_radius /\ ~has_zip
                 THEN params \o <<"searchRadius=500", "zip=94002">>
                 ELSE params
    IN  base_url \o url_path \o "?" \o join(all_params, "&")

\* the branch for the legacy {makes, models, trims, zip, location, ...} format
autotrader_from_legacy_format(structured) ==
    LET base_url == "https://www.autotrader.com"
        makes == IF truthy(get(structured, "makes")) THEN structured["makes"].value
                 ELSE IF truthy(get(structured, "make"))
                      THEN <<structured["make"].value>> ELSE <<>>
        make == IF makes # <<>> THEN replace(lower(makes[1]), " ", "-") ELSE ""
        models == IF truthy(get(structured, "models")) THEN structured["models"].value
                  ELSE IF truthy(get(structured, "model"))
                       THEN <<structured["model"].value>> ELSE <<>>
        model == IF models # <<>> THEN replace(lower(models[1]), " ", "-") ELSE ""
        trims == get_or(structured, "trims", PyList(<<>>)).value
        trim == IF trims # <<>> THEN replace(lower(trims[1]), " ", "-") ELSE ""
        color_in == get_or(structured, "color", PyStr(""))
        color == IF color_in.type = "list"
                 THEN (IF color_in.value # <<>> THEN lower(color_in.value[1]) ELSE "")
                 ELSE IF truthy(color_in) THEN lower(color_in.value) ELSE ""
        p0 == <<"cars-for-sale">>
        p1 == append_if(color # "", p0, color)
        p2 == append_if(make # "", p1, make)
        p3 == append_if(model # "", p2, model)
        p4 == append_if(trim # "", p3, trim)
        location == get_or(structured, "location", PyDict(<<>>)).value
        zip_code == get(structured, "zip")
        city == IF truthy(get(location, "city"))
                THEN replace(lower(location["city"].value), " ", "-") ELSE ""
        state == IF truthy(get(location, "state"))
                 THEN lower(location["state"].value) ELSE ""
        location_part == IF city # "" /\ state # "" THEN city \o "-" \o state
                         ELSE IF city # "" THEN city ELSE state
        path_parts == append_if(~truthy(zip_code) /\ (city # "" \/ state # ""),
                                p4, location_part)
        url_path == "/" \o join(path_parts, "/")
        q0 == append_if(truthy(get(structured, "zip")), <<>>,
                        "zip=" \o fmt(get_or(structured, "zip", PyStr(""))))
        radius == get_or(structured, "radius", PyInt(500))
        q1 == Append(q0, "searchRadius=" \o fmt(radius))
        year == get_or(structured, "year", PyDict(<<>>))
        q2 == IF year.type = "dict"
              THEN append_if(truthy(get(year.value, "max")),
                     append_if(truthy(get(year.value, "min")), q1,
                        "startYear=" \o fmt(get_or(year.value, "min", PyStr("")))),
                     "endYear=" \o fmt(get_or(year.value, "max", PyStr(""))))
              ELSE IF year.type = "int"
                   THEN Append(q1, "startYear=" \o fmt(year) \o "&endYear=" \o fmt(year))
                   ELSE q1
        q3 == append_if(truthy(get(structured, "yearMin")), q2,
                        "startYear=" \o fmt(get_or(structured, "yearMin", PyStr(""))))
        q4 == append_if(truthy(get(structured, "yearMax")), q3,
                        "endYear=" \o fmt(get_or(structured, "yearMax", PyStr(""))))
        params == append_if(truthy(get(structured, "maxPrice")), q4,
                        "maxPrice=" \o fmt(get_or(structured, "maxPrice", PyStr(""))))
    IN  base_url \o url_path \o "?" \o join(params, "&")

adapt_structured_to_autotrader(structured) ==
    IF "url_params" \in DOMAIN structured \/ "path_components" \in DOMAIN structured
    THEN PyStr(autotrader_from_retailer_format(structured))
    ELSE PyStr(autotrader_from_legacy_format(structured))

-----------------------------------------------------------------------------
(* scripts/scrape-cars-camoufox.py                                         *)

cargurus_drivetrain_map ==
    "Four Wheel Drive" :> "FOUR_WHEEL_DRIVE" @@
    "All Wheel Drive" :> "ALL_WHEEL_DRIVE" @@
    "Rear Wheel Drive" :> "REAR_WHEEL_DRIVE" @@
    "Front Wheel Drive" :> "FRONT_WHEEL_DRIVE"

cargurus_fuel_map ==
    "Gas" :> "GASOLINE" @@ "Electric" :> "ELECTRIC" @@ "Hybrid" :> "HYBRID" @@
    "Plug-In Hybrid" :> "PLUG_IN_HYBRID" @@ "Diesel" :> "DIESEL"

adapt_structured_to_cargurus(structured) ==
    LET makes == get_or(structured, "makes", PyList(<<>>))
        models == get_or(structured, "models", PyList(<<>>))
        dt == get(structured, "drivetrain")
        ft == get(structured, "fuelType")
        location == get_or(structured, "location", PyDict(<<>>)).value
    IN  PyDict(
          entry_if(truthy(makes), "make", PyStr(makes.value[1]))
       @@ entry_if(truthy(models), "model", PyStr(models.value[1]))
       @@ entry_if(truthy(get(structured, "trims")), "trim",
                   PyStr(get_or(structured, "trims", PyList(<<"">>)).value[1]))
       @@ entry_if(truthy(dt), "drivetrain",
                   PyStr(IF truthy(dt) /\ dt.value \in DOMAIN cargurus_drivetrain_map
                         THEN cargurus_drivetrain_map[dt.value]
                         ELSE IF truthy(dt)
                              THEN replace(upper(dt.value), " ", "_") ELSE ""))
       @@ entry_if(truthy(ft), "fuelType",
                   PyStr(IF truthy(ft) /\ ft.value \in DOMAIN cargurus_fuel_map
                         THEN cargurus_fuel_map[ft.value]
                         ELSE IF truthy(ft) THEN upper(ft.value) ELSE ""))
       @@ entry_if(truthy(get(structured, "exteriorColor")), "exteriorColor",
                   get(structured, "exteriorColor"))
       @@ (IF truthy(get(structured, "yearMin"))
           THEN "yearMin" :> get(structured, "yearMin")
           ELSE entry_if(truthy(get(structured, "year")), "yearMin",
                         get(structured, "year")))
       @@ entry_if(truthy(get(structured, "yearMax")), "yearMax",
                   get(structured, "yearMax"))
       @@ entry_if(get(structured, "minPrice") # PyNone, "minPrice",
                   get(structured, "minPrice"))
       @@ entry_if(get(structured, "maxPrice") # PyNone, "maxPrice",
                   get(structured, "maxPrice"))
       @@ "zip" :> (IF truthy(get(location, "zip")) THEN get(location, "zip")
                    ELSE PyStr("94002"))
       @@ "distance" :> (IF truthy(get(location, "distance"))
                         THEN get(location, "distance") ELSE PyInt(200)))

-----------------------------------------------------------------------------
(* scripts/scrape-carmax.py                                                *)

\* min(a, b)
min(a, b) == IF a <= b THEN a ELSE b

\* carmax_make_model_pairs without the truncation to the shorter list
carmax_make_model_pairs_NoTruncate(makes, models) ==
    IF truthy(makes) /\ truthy(models)
    THEN PyDict("makes" :> makes @@
                "models" :> PyList(normalize_models_for_site(models.value, "carmax")))
    ELSE PyDict(<<>>)

\* the makes/models entries of adapt_structured_to_carmax
carmax_make_model_pairs(makes, models) ==
    IF truthy(makes) /\ truthy(models)
    THEN LET normalized == normalize_models_for_site(models.value, "carmax")
             min_len == min(Len(makes.value), Len(normalized))
         IN  PyDict("makes" :> PyList(SubSeq(makes.value, 1, min_len)) @@
                    "models" :> PyList(SubSeq(normalized, 1, min_len)))
    ELSE PyDict(<<>>)

adapt_structured_to_carmax(structured) ==
    LET makes == get_or(structured, "makes", PyList(<<>>))
        models == get_or(structured, "models", PyList(<<>>))
        pairs == carmax_make_model_pairs(makes, models)
        c0 == append_if(truthy(get(structured, "exteriorColor")), <<>>,
                        get_or(structured, "exteriorColor", PyStr("")).value)
        colors == append_if(truthy(get(structured, "interiorColor")), c0,
                        get_or(structured, "interiorColor", PyStr("")).value)
        copy(key, to) == entry_if(truthy(get(structured, key)), to,
                                  get(structured, key))
    IN  IF pairs.type = "raise" THEN pairs
        ELSE PyDict(
          pairs.value
       @@ copy("trims", "trims")
       @@ entry_if(colors # <<>>, "colors", PyList(colors))
       @@ copy("bodyType", "body_type")
       @@ copy("fuelType", "fuel_type")
       @@ copy("drivetrain", "drivetrain")
       @@ copy("transmission", "transmission")
       @@ copy("carSize", "car_size")
       @@ copy("doors", "doors")
       @@ copy("cylinders", "cylinders")
       @@ copy("features", "features")
       @@ entry_if(get(structured, "minPrice") # PyNone, "min_price",
                   get(structured, "minPrice"))
       @@ entry_if(get(structured, "maxPrice") # PyNone, "max_price",
                   get(structured, "maxPrice")))

-----------------------------------------------------------------------------
(* scripts/scrape-carvana-interactive.py                                   *)

adapt_structured_to_carvana_interactive(structured) ==
    LET year == get(structured, "year")
    IN  PyDict(
          entry_if(truthy(get(structured, "makes")), "make",
                   PyStr(get_or(structured, "makes", PyList(<<"">>)).value[1]))
       @@ entry_if(truthy(get(structured, "models")), "model",
                   PyStr(get_or(structured, "models", PyList(<<"">>)).value[1]))
       @@ entry_if(truthy(get(structured, "trims")), "trims",
                   get(structured, "trims"))
       @@ (IF truthy(year) /\ year.type = "dict"
           THEN "year" :> get(year.value, "max")
           ELSE entry_if(truthy(year) /\ year.type = "int", "year", year)))

-----------------------------------------------------------------------------
(* scripts/scrape-truecar.py                                               *)

\* truecar_model with the model passed through the default HD table
truecar_model_StripHd(structured) ==
    entry_if(truthy(get(structured, "models")), "model",
             PyStr(normalize_model_for_site(
                     get_or(structured, "models", PyList(<<"">>)).value[1],
                     "default")))

\* the model entry of adapt_structured_to_truecar
truecar_model(structured) ==
    entry_if(truthy(get(structured, "models")), "model",
             PyStr(get_or(structured, "models", PyList(<<"">>)).value[1]))

adapt_structured_to_truecar(structured) ==
    LET copy(key, to) == entry_if(truthy(get(structured, key)), to,
                                  get(structured, key))
    IN  PyDict(
          entry_if(truthy(get(structured, "makes")), "make",
                   PyStr(get_or(structured, "makes", PyList(<<"">>)).value[1]))
       @@ truecar_model(structured)
       @@ entry_if(truthy(get(structured, "trims")), "trims",
                   PyList(<<get_or(structured, "trims", PyList(<<"">>)).value[1]>>))
       @@ (IF truthy(get(structured, "year")) THEN copy("year", "year")
           ELSE copy("yearMin", "startYear") @@ copy("yearMax", "endYear"))
       @@ copy("maxPrice", "budget")
       @@ copy("bodyType", "bodyStyle")
       @@ copy("drivetrain", "drivetrain")
       @@ copy("fuelType", "fuelType"))

-----------------------------------------------------------------------------
(* scripts/parse_vehicle_query.py: the regular expressions of the pattern  *)
(* fallback, matched as re.search / re.findall match them                  *)

SpaceChars == " \t\n\r\f"

\* \s, \d and \w on one character
is_space(c) == c # "" /\ PosIn(c, SpaceChars) > 0
is_digit(c) == c # "" /\ PosIn(c, DigitChars) > 0
is_word(c) == c # "" /\ (PosIn(c, DigitChars) > 0 \/ PosIn(c, LowerChars) > 0
                         \/ PosIn(c, UpperChars) > 0 \/ c = "_")

\* character i of s, "" outside the string
at(s, i) == IF i >= 1 /\ i <= Len(s) THEN Char(s, i) ELSE ""

\* the literal text lit occurs in s at position i
lit_at(s, i, lit) == i >= 1 /\ i + Len(lit) - 1 <= Len(s)
                     /\ SubSeq(s, i, i + Len(lit) - 1) = lit

\* first position at or after i that ends the greedy run \s* starting at i
spaces_end(s, i) == least({j \in i..(Len(s) + 1) : ~is_space(at(s, j))})

\* first position at or after i that ends the greedy run \d* starting at i
digits_end(s, i) == least({j \in i..(Len(s) + 1) : ~is_digit(at(s, j))})

\* \d{5} matches at i
five_digits_at(s, i) == \A j \in i..(i + 4) : is_digit(at(s, j))

\* int(s) for a string of decimal digits
RECURSIVE int(_)
int(s) ==
    IF s = "" THEN 0
    ELSE int(SubSeq(s, 1, Len(s) - 1)) * 10 + (PosIn(Char(s, Len(s)), DigitChars) - 1)

\* within\s+(\d+)\s+miles?\s+of\s+(\d{5}) anchored at i: the groups, or <<>>
radius_match_at(s, i) ==
    LET a == i + 6
        b == spaces_end(s, a)
        c == digits_end(s, b)
        d == spaces_end(s, c)
        e == IF at(s, d + 4) = "s" THEN d + 5 ELSE d + 4
        f == spaces_end(s, e)
        g == spaces_end(s, f + 2)
    IN  IF /\ lit_at(s, i, "within") /\ b > a /\ c > b /\ d > c
           /\ lit_at(s, d, "mile") /\ f > e /\ lit_at(s, f, "of")
           /\ g > f + 2 /\ five_digits_at(s, g)
        THEN <<SubSeq(s, b, c - 1), SubSeq(s, g, g + 4)>>
        ELSE <<>>

\* (?:near|around|zip|of)\s+(\d{5}) anchored at i: the group, or ""
zip_match_at(s, i) ==
    LET words == {"near", "around", "zip", "of"}
        hit == {w \in words :
                   /\ lit_at(s, i, w)
                   /\ spaces_end(s, i + Len(w)) > i + Len(w)
                   /\ five_digits_at(s, spaces_end(s, i + Len(w)))}
    IN  IF hit = {} THEN ""
        ELSE LET w == CHOOSE w \in hit : TRUE
                 g == spaces_end(s, i + Len(w))
             IN  SubSeq(s, g, g + 4)

\* \b(\d{5})\b anchored at i: the group, or ""
zip_standalone_at(s, i) ==
    IF five_digits_at(s, i) /\ ~is_word(at(s, i - 1)) /\ ~is_word(at(s, i + 5))
    THEN SubSeq(s, i, i + 4) ELSE ""

\* under\s*\$?(\d+) anchored at i: the group, or ""
price_match_at(s, i) ==
    LET a == spaces_end(s, i + 5)
        b == IF at(s, a) = "$" THEN a + 1 ELSE a
        c == digits_end(s, b)
    IN  IF lit_at(s, i, "under") /\ c > b THEN SubSeq(s, b, c - 1) ELSE ""

\* re.search: the leftmost of the positions where the pattern matches, 0 when
\* there is no such position
search(hits) == IF hits = {} THEN 0 ELSE least(hits)

\* re.findall(r'(20\d{2})', s) from position i on: leftmost, non-overlapping
RECURSIVE year_matches_from(_, _)
year_matches_from(s, i) ==
    LET hits == {j \in i..(Len(s) - 3) :
                    /\ lit_at(s, j, "20")
                    /\ is_digit(at(s, j + 2)) /\ is_digit(at(s, j + 3))}
    IN  IF hits = {} THEN <<>>
        ELSE <<SubSeq(s, least(hits), least(hits) + 3)>>
             \o year_matches_from(s, least(hits) + 4)

\* str.capitalize()
capitalize(s) == IF s = "" THEN "" ELSE upper(Head(s)) \o lower(Tail(s))

\* str.title() on one character: upper case after an uncased character
title_at(s, i) ==
    LET prev == at(s, i - 1)
    IN  IF PosIn(prev, LowerChars) > 0 \/ PosIn(prev, UpperChars) > 0
        THEN lower_at(s, i) ELSE upper_at(s, i)

\* str.title()
title(s) == map_chars([i \in 1..Len(s) |-> title_at(s, i)], 1, Len(s))

-----------------------------------------------------------------------------
(* scripts/parse_vehicle_query.py: parse_with_patterns_fallback            *)

fallback_colors ==
    <<"black", "white", "gray", "silver", "blue", "red", "green", "brown",
      "beige", "gold">>

\* common_makes, in the insertion order the loop visits it
common_makes ==
    <<<<"gmc", "GMC">>, <<"ford", "Ford">>, <<"chevrolet", "Chevrolet">>,
      <<"chevy", "Chevrolet">>, <<"toyota", "Toyota">>, <<"honda", "Honda">>,
      <<"jeep", "Jeep">>, <<"ram", "Ram">>>>

\* gmc_trims + ford_trims + chevy_trims + ram_trims
all_trims ==
    <<"Denali Ultimate", "Denali", "AT4", "SLE", "SLT", "Pro", "Elevation",
      "Platinum", "King Ranch", "Lariat", "Limited", "XLT", "XL", "Tremor",
      "Raptor",
      "High Country", "LTZ", "LT", "Custom", "WT", "Trail Boss", "Z71",
      "Limited", "Longhorn", "Laramie", "Big Horn", "Rebel", "Tradesman", "TRX">>

\* the local variables of parse_with_patterns_fallback after extraction;
\* a variable the code leaves at None holds PyNone
fallback_extract(query) ==
    LET query_lower == lower(query)
        radius_at == search({i \in 1..Len(query_lower) :
                                radius_match_at(query_lower, i) # <<>>})
        radius_match == IF radius_at = 0 THEN <<>>
                        ELSE radius_match_at(query_lower, radius_at)
        zip_at == search({i \in 1..Len(query_lower) : zip_match_at(query_lower, i) # ""})
        zip_match == IF zip_at = 0 THEN "" ELSE zip_match_at(query_lower, zip_at)
        standalone_at == search({i \in 1..Len(query) : zip_standalone_at(query, i) # ""})
        zip_standalone == IF standalone_at = 0 THEN ""
                          ELSE zip_standalone_at(query, standalone_at)
        zip_found == IF radius_match # <<>> THEN radius_match[2]
                     ELSE IF zip_match # "" THEN zip_match
                     ELSE zip_standalone
        radius_found == IF radius_match # <<>> THEN int(radius_match[1]) ELSE 0
        year_matches == year_matches_from(query, 1)
        years == {int(year_matches[i]) : i \in 1..Len(year_matches)}
        price_at == search({i \in 1..Len(query_lower) :
                               price_match_at(query_lower, i) # ""})
        max_price == IF price_at = 0 THEN PyNone
                     ELSE PyInt(int(price_match_at(query_lower, price_at)))
        color_hits == {i \in 1..Len(fallback_colors) :
                          contains(query_lower, fallback_colors[i])}
        has(sub) == contains(query_lower, sub)
        make_hits == SelectSeq(common_makes, LAMBDA m : has(m[1]))
        trim_hits == {i \in 1..Len(all_trims) : has(lower(all_trims[i]))}
    IN  [zip_code |-> IF zip_found = "" THEN "94002" ELSE zip_found,
         search_radius |-> IF radius_found = 0 THEN 500 ELSE radius_found,
         year_min |-> IF years = {} THEN PyNone
                      ELSE PyInt(least(years)),
         year_max |-> IF years = {} THEN PyNone
                      ELSE PyInt(CHOOSE y \in years : \A z \in years : y >= z),
         max_price |-> max_price,
         color |-> IF color_hits = {} THEN PyNone
                   ELSE PyStr(capitalize(fallback_colors[
                          least(color_hits)])),
         drivetrain |->
             IF has("4wd") \/ has("4 wd") \/ has("four wheel drive") \/ has("4x4")
             THEN PyStr("FOUR_WHEEL_DRIVE")
             ELSE IF has("awd") \/ has("all wheel drive")
                  THEN PyStr("ALL_WHEEL_DRIVE")
                  ELSE IF has("2wd") \/ has("2 wd") \/ has("4x2")
                       THEN PyStr("FOUR_BY_TWO") ELSE PyNone,
         makes |-> [i \in 1..Len(make_hits) |-> make_hits[i][2]],
         trims |-> IF trim_hits = {} THEN <<>>
                   ELSE <<all_trims[least(trim_hits)]>>,
         models |-> IF has("sierra")
                    THEN <<IF has("3500") \/ has("hd")
                           THEN "Sierra 3500HD" ELSE "Sierra">>
                    ELSE IF has("silverado") THEN <<"Silverado">>
                    ELSE IF has("f-150") \/ has("f150") THEN <<"F-150">>
                    ELSE <<>>]

\* the autotrader URL the fallback builds from the extracted values
fallback_autotrader(x) ==
    LET make == IF x.makes # <<>> THEN lower(x.makes[1]) ELSE "all"
        model == IF x.models # <<>> THEN replace(lower(x.models[1]), " ", "-")
                 ELSE "all"
        a0 == append_if(truthy(x.color), <<>>,
                        lower(IF truthy(x.color) THEN x.color.value ELSE ""))
        a1 == a0 \o <<make, model>>
        autotrader_parts ==
            append_if(x.trims # <<>>, a1,
                      replace(lower(IF x.trims # <<>> THEN x.trims[1] ELSE ""),
                              " ", "-"))
        opt(v, name) == IF truthy(v) THEN "&" \o name \o "=" \o fmt(v) ELSE ""
    IN  "https://www.autotrader.com/cars-for-sale/"
        \o join(autotrader_parts, "/")
        \o "?searchRadius=" \o str(x.search_radius) \o "&zip=" \o x.zip_code
        \o opt(x.year_min, "startYear")
        \o opt(x.year_max, "endYear")
        \o opt(x.max_price, "maxPrice")

\* str(v) of an extracted integer, as a Python value
str_of(v) == PyStr(IF v.type = "int" THEN str(v.value) ELSE "")

fallback_cargurus(x) ==
    entry_if(x.makes # <<>>, "make", PyStr(IF x.makes # <<>> THEN x.makes[1] ELSE ""))
    @@ entry_if(x.models # <<>>, "model",
                PyStr(IF x.models # <<>> THEN x.models[1] ELSE ""))
    @@ "zip" :> PyStr(x.zip_code)
    @@ "distance" :> PyInt(x.search_radius)
    @@ entry_if(truthy(x.year_min), "yearMin", str_of(x.year_min))
    @@ entry_if(truthy(x.year_max), "yearMax", str_of(x.year_max))
    @@ entry_if(x.trims # <<>>, "trim", PyStr(IF x.trims # <<>> THEN x.trims[1] ELSE ""))
    @@ entry_if(truthy(x.color), "exteriorColor", x.color)
    @@ entry_if(truthy(x.drivetrain), "drivetrain", x.drivetrain)
    @@ entry_if(truthy(x.max_price), "maxPrice", x.max_price)

fallback_carmax(x) ==
    entry_if(x.makes # <<>>, "makes", PyList(x.makes))
    @@ entry_if(x.models # <<>>, "models", PyList(x.models))
    @@ entry_if(x.trims # <<>>, "trims", PyList(x.trims))
    @@ entry_if(truthy(x.color), "colors",
                PyList(<<IF truthy(x.color) THEN x.color.value ELSE "">>))
    @@ entry_if(truthy(x.year_min), "yearMin", str_of(x.year_min))
    @@ entry_if(truthy(x.year_max), "yearMax", str_of(x.year_max))
    @@ entry_if(truthy(x.drivetrain), "drivetrain",
                PyStr(title(replace(IF truthy(x.drivetrain) THEN x.drivetrain.value
                                    ELSE "", "_", " "))))
    @@ entry_if(truthy(x.max_price), "maxPrice", x.max_price)

fallback_carvana(x) ==
    entry_if(x.makes # <<>>, "make", PyStr(IF x.makes # <<>> THEN x.makes[1] ELSE ""))
    @@ entry_if(x.models # <<>>, "model",
                PyStr(IF x.models # <<>> THEN x.models[1] ELSE ""))
    @@ entry_if(x.trims # <<>>, "trims", PyList(x.trims))
    @@ entry_if(truthy(x.year_min), "year", x.year_min)
    @@ entry_if(truthy(x.drivetrain), "drivetrain",
                PyStr(replace(IF truthy(x.drivetrain) THEN x.drivetrain.value
                              ELSE "", "_", " ")))
    @@ entry_if(truthy(x.color), "exteriorColor", x.color)

fallback_truecar(x) ==
    entry_if(x.makes # <<>>, "make", PyStr(IF x.makes # <<>> THEN x.makes[1] ELSE ""))
    @@ entry_if(x.models # <<>>, "model",
                PyStr(IF x.models # <<>> THEN x.models[1] ELSE ""))
    @@ entry_if(x.trims # <<>>, "trims", PyList(x.trims))
    @@ entry_if(truthy(x.year_min), "startYear", str_of(x.year_min))
    @@ entry_if(truthy(x.year_max), "endYear", str_of(x.year_max))
    @@ entry_if(truthy(x.max_price), "budget", x.max_price)
    @@ entry_if(truthy(x.drivetrain), "drivetrain",
                PyStr(replace(replace(replace(
                        IF truthy(x.drivetrain) THEN x.drivetrain.value ELSE "",
                        "_", " "), "Four Wheel Drive", "4WD"),
                        "All Wheel Drive", "AWD")))
    @@ "postalCode" :> PyStr(x.zip_code)
    @@ "searchRadius" :> PyInt(x.search_radius)

\* the dict parse_with_patterns_fallback returns, x being its local variables
fallback_result(query, x) ==
        PyDict(
          "query" :> PyStr(query)
       @@ "retailers" :> PyDict(
              "autotrader" :> PyStr(fallback_autotrader(x))
           @@ "cargurus" :> PyDict(fallback_cargurus(x))
           @@ "carmax" :> PyDict(fallback_carmax(x))
           @@ "carvana" :> PyDict(fallback_carvana(x))
           @@ "truecar" :> PyDict(fallback_truecar(x)))
       @@ "method" :> PyStr("pattern_fallback"))

parse_with_patterns_fallback(query, filters) ==
    fallback_result(query, fallback_extract(query))

-----------------------------------------------------------------------------
(* Callers of the normalizer                                               *)

DefaultKeys == DOMAIN SITE_MODEL_MAPPINGS["default"]

\* model names a caller may pass: every key and value of the tables, their
\* slug forms, case and separator variants, and names without an HD variant
ModelInputs ==
    DefaultKeys
    \cup {SITE_MODEL_MAPPINGS["default"][k] : k \in DefaultKeys}
    \cup {slugify(k) : k \in DefaultKeys}
    \cup {slugify(SITE_MODEL_MAPPINGS["default"][k]) : k \in DefaultKeys}
    \cup {"SIERRA 3500HD", "sierra 3500hd", "Sierra_3500HD", "sierra_3500hd",
          "Sierra", "Silverado", "Tacoma", "RAV4", "Yukon", ""}

\* site identifiers a caller may pass
SiteInputs ==
    {"autotrader", "truecar", "cargurus", "carmax", "carvana",
     "AutoTrader", "Auto-Trader", "auto_trader", "TrueCar", "True-Car",
     "CAR_GURUS", "Car-Gurus", "CarMax", "car-max", "CARVANA",
     "kbb", "cars.com", "default", "edmunds", ""}

\* the processes that use a VPNManager on the host
Worker == "worker"
Procs == {Worker, "p1"}

\* VPNManager.__init__: the state of a fresh manager
VPNManager ==
    [current_interface |-> "None", vpn_enabled |-> FALSE,
     lock_file |-> "None", lock_held |-> FALSE]

\* no process uses the VPN
InitVpnIdle ==
    /\ v_mgr = [p \in Procs |-> VPNManager]
    /\ v_pc = [p \in Procs |-> "idle"]
    /\ v_ret = [p \in Procs |-> [call |-> "none", value |-> "None"]]
    /\ v_lock = "free"
    /\ v_up = {}

\* no worker code runs
InitWorkerIdle ==
    /\ w_vpn = FALSE
    /\ w_body = <<>>
    /\ w_pc = "off"
    /\ w_scraper = 0
    /\ w_attempt = 0
    /\ w_launches = <<>>
    /\ w_returned = PyNone
    /\ w_inputs = <<>>
    /\ w_all_results = <<>>
    /\ w_errors = <<>>
    /\ w_callbacks = <<>>
    /\ w_tmp = <<>>
    /\ s_pc = "off"
    /\ s_scraper = ""
    /\ s_input = ""

\* the value of p_outcome while no completion request has come back
NotSent == [type |-> "not sent"]

InitParserIdle ==
    /\ p_files = <<>>
    /\ p_changes = 0
    /\ p_env = [openai |-> FALSE, keys |-> {}]
    /\ p_query = ""
    /\ p_use_llm = FALSE
    /\ p_pc = "idle"
    /\ p_filters = <<>>
    /\ p_outcome = NotSent
    /\ p_llm = PyNone
    /\ p_result = PyNone
    /\ p_loads = <<>>
    /\ c_cache = PyNone
    /\ c_returns = <<>>

InitAdaptersIdle ==
    /\ a_kind = "idle"
    /\ a_structured = <<>>
    /\ a_query = ""
    /\ a_locals = PyNone
    /\ a_called = "none"
    /\ a_result = PyNone

InitNormalizer ==
    /\ n_model \in ModelInputs
    /\ n_site \in SiteInputs
    /\ n_result = ""
    /\ n_should = FALSE
    /\ n_again = ""
    /\ n_done = {}
    /\ InitAdaptersIdle
    /\ InitParserIdle
    /\ InitVpnIdle
    /\ InitWorkerIdle

\* a caller applies normalize_model_for_site to the model
Normalize ==
    /\ n_result' = normalize_model_for_site(n_model, n_site)
    /\ n_done' = (n_done \ {"renormalize"}) \cup {"normalize"}
    /\ UNCHANGED <<n_model, n_site, n_should, n_again>>
    /\ UNCHANGED avars
    /\ UNCHANGED pvars
    /\ UNCHANGED <<vvars, wvars>>

\* a caller passes the already normalized name through the normalizer again
Renormalize ==
    /\ "normalize" \in n_done
    /\ n_again' = normalize_model_for_site(n_result, n_site)
    /\ n_done' = n_done \cup {"renormalize"}
    /\ UNCHANGED <<n_model, n_site, n_result, n_should>>
    /\ UNCHANGED avars
    /\ UNCHANGED pvars
    /\ UNCHANGED <<vvars, wvars>>

\* a caller asks whether normalization is meaningful for the model
ShouldNormalize ==
    /\ n_should' = should_normalize_model(n_model, n_site)
    /\ n_done' = n_done \cup {"should"}
    /\ UNCHANGED <<n_model, n_site, n_result, n_again>>
    /\ UNCHANGED avars
    /\ UNCHANGED pvars
    /\ UNCHANGED <<vvars, wvars>>

NextNormalizer == Normalize \/ Renormalize \/ ShouldNormalize

SpecNormalizer == InitNormalizer /\ [][NextNormalizer]_vars

-----------------------------------------------------------------------------
(* Callers of the adapters and of the pattern fallback                     *)

\* longest makes and models lists of a structured query
MaxMakes == 2
MaxModels == 2

MakePool == <<"GMC", "Ford", "Chevrolet", "Ram">>
FirstModels == {"Sierra 3500HD", "Sierra 2500HD", "Sierra"}
OtherModels == <<"F-150", "Silverado 3500HD", "Ram 1500">>

\* the first n elements of pool
prefix(pool, n) == SubSeq(pool, 1, min(n, Len(pool)))

MakesChoices ==
    {<<>>} \cup {"makes" :> PyList(prefix(MakePool, n)) : n \in 0..MaxMakes}

ModelsChoices ==
    {<<>>, "models" :> PyList(<<>>)}
    \cup {"models" :> PyList(<<m>> \o prefix(OtherModels, n - 1)) :
             m \in FirstModels, n \in 1..MaxModels}

TrimsChoices == {<<>>, "trims" :> PyList(<<"Denali Ultimate">>)}

YearChoices ==
    {<<>>,
     "yearMin" :> PyInt(2023) @@ "yearMax" :> PyInt(2024),
     "year" :> PyInt(2023)}

PriceChoices == {<<>>, "maxPrice" :> PyInt(100000)}

ColorChoices ==
    {<<>>, "color" :> PyStr("Black"), "exteriorColor" :> PyStr("Black")}

DrivetrainChoices ==
    {<<>>, "drivetrain" :> PyStr("Four Wheel Drive"),
     "drivetrain" :> PyStr("All Wheel Drive")}

\* colour and drivetrain, each alone and one combination
ExtrasChoices ==
    ColorChoices \cup DrivetrainChoices
    \cup {"exteriorColor" :> PyStr("Black") @@ "drivetrain" :> PyStr("Four Wheel Drive")}

LocationChoices ==
    {<<>>,
     "location" :> PyDict("zip" :> PyStr("94002")),
     "location" :> PyDict("zip" :> PyStr("10001") @@ "radius" :> PyInt(50)),
     "location" :> PyDict("zip" :> PyStr("10001") @@ "distance" :> PyInt(75)),
     "location" :> PyDict("city" :> PyStr("San Mateo") @@ "state" :> PyStr("CA")),
     "zip" :> PyStr("10001"),
     "zip" :> PyStr("10001") @@ "radius" :> PyInt(25)}

\* the structured queries handed to the adapters (legacy format)
StructuredQueries ==
    {mk @@ md @@ tr @@ yr @@ pr @@ co @@ lo :
        mk \in MakesChoices, md \in ModelsChoices, tr \in TrimsChoices,
        yr \in YearChoices, pr \in PriceChoices, co \in ExtrasChoices,
        lo \in LocationChoices}

PathComponentsChoices ==
    {<<>>,
     "path_components" :> PyDict(<<>>),
     "path_components" :> PyDict("make" :> PyStr("GMC")
                                 @@ "model" :> PyStr("Sierra-3500")
                                 @@ "trim" :> PyStr("Denali-Ultimate")),
     "path_components" :> PyDict("color" :> PyStr("Black")
                                 @@ "make" :> PyStr("GMC")
                                 @@ "model" :> PyStr("Sierra-3500"))}

UrlParamsChoices ==
    {<<>>,
     "url_params" :> PyOrderedDict(<<>>, <<>>),
     "url_params" :> PyOrderedDict(<<"zip">>, "zip" :> PyStr("10001")),
     "url_params" :> PyOrderedDict(<<"searchRadius">>, "searchRadius" :> PyInt(50)),
     "url_params" :> PyOrderedDict(<<"searchRadius", "zip">>,
                        "searchRadius" :> PyInt(50) @@ "zip" :> PyStr("10001")),
     "url_params" :> PyOrderedDict(<<"startYear", "endYear", "zip", "maxPrice">>,
                        "startYear" :> PyInt(2023) @@ "endYear" :> PyInt(2024)
                        @@ "zip" :> PyStr("10001") @@ "maxPrice" :> PyInt(100000))}

\* the LLM retailer-format inputs {url_params, path_components}
RetailerFormatQueries ==
    {pc @@ up : pc \in PathComponentsChoices, up \in UrlParamsChoices} \ {<<>>}

\* the free-text queries handed to the pattern fallback
QueryYears == {"", "2023-2024 "}
QueryMakes == {"", "GMC "}
QueryModels == {"", "Sierra 3500HD ", "Sierra 2500HD ", "Silverado 3500HD ", "F-150 "}
QueryTrims == {"", "Denali Ultimate ", "Laramie "}
QueryExtras == {"", "black 4WD ", "4x4 ", "AWD "}
QueryLocations ==
    {"", "within 500 miles of 94002 ", "near 10001 ", "94002 ",
     "within 0 miles of 10001 ", "within 50 miles of 20500 "}
QueryPrices == {"", "under 100000", "under 20000"}

Queries ==
    {y \o mk \o md \o tr \o ex \o lo \o pr :
        y \in QueryYears, mk \in QueryMakes, md \in QueryModels,
        tr \in QueryTrims, ex \in QueryExtras,
        lo \in QueryLocations, pr \in QueryPrices}

InitNormalizerIdle ==
    /\ n_model = ""
    /\ n_site = ""
    /\ n_result = ""
    /\ n_should = FALSE
    /\ n_again = ""
    /\ n_done = {}

InitAdapters ==
    /\ InitNormalizerIdle
    /\ InitParserIdle
    /\ InitVpnIdle
    /\ InitWorkerIdle
    /\ \/ /\ a_kind = "structured"
          /\ a_structured \in StructuredQueries \cup RetailerFormatQueries
          /\ a_query = ""
       \/ /\ a_kind = "query"
          /\ a_structured = <<>>
          /\ a_query \in Queries
    /\ a_locals = PyNone
    /\ a_called = "none"
    /\ a_result = PyNone

\* a scraper process applies its adapter to the structured query it was given
Adapt(name, result) ==
    /\ a_kind = "structured"
    /\ a_called = "none"
    /\ a_called' = name
    /\ a_result' = result
    /\ UNCHANGED <<a_kind, a_structured, a_query, a_locals>>
    /\ UNCHANGED nvars
    /\ UNCHANGED pvars
    /\ UNCHANGED <<vvars, wvars>>

AdaptAutotrader ==
    Adapt("adapt_structured_to_autotrader", adapt_structured_to_autotrader(a_structured))
AdaptCargurus ==
    Adapt("adapt_structured_to_cargurus", adapt_structured_to_cargurus(a_structured))
AdaptCarmax ==
    Adapt("adapt_structured_to_carmax", adapt_structured_to_carmax(a_structured))
AdaptCarvana ==
    Adapt("adapt_structured_to_carvana_interactive",
          adapt_structured_to_carvana_interactive(a_structured))
AdaptTruecar ==
    Adapt("adapt_structured_to_truecar", adapt_structured_to_truecar(a_structured))

\* the parser runs the pattern fallback on the query
ParseWithPatternsFallback ==
    /\ a_kind = "query"
    /\ a_called = "none"
    /\ a_called' = "parse_with_patterns_fallback"
    /\ a_locals' = fallback_extract(a_query)
    /\ a_result' = fallback_result(a_query, a_locals')
    /\ UNCHANGED <<a_kind, a_structured, a_query>>
    /\ UNCHANGED nvars
    /\ UNCHANGED pvars
    /\ UNCHANGED <<vvars, wvars>>

NextAdapters ==
    \/ AdaptAutotrader
    \/ AdaptCargurus
    \/ AdaptCarmax
    \/ AdaptCarvana
    \/ AdaptTruecar
    \/ ParseWithPatternsFallback

SpecAdapters == InitAdapters /\ [][NextAdapters]_vars

-----------------------------------------------------------------------------
(* Properties of the normalizer                                            *)

\* the default HD table as the specification states it
DefaultTable ==
    "Sierra 1500HD" :> "Sierra 1500" @@ "Sierra 2500HD" :> "Sierra 2500" @@
    "Sierra 3500HD" :> "Sierra 3500" @@
    "Silverado 1500HD" :> "Silverado 1500" @@
    "Silverado 2500HD" :> "Silverado 2500" @@
    "Silverado 3500HD" :> "Silverado 3500" @@
    "F-150 HD" :> "F-150" @@ "F-250 HD" :> "F-250" @@ "F-350 HD" :> "F-350" @@
    "Ram 1500 Classic" :> "Ram 1500" @@ "Ram 2500 Classic" :> "Ram 2500" @@
    "Ram 3500 Classic" :> "Ram 3500"

\* the spellings among SiteInputs that name autotrader, truecar or cargurus
BothVariantSpellings ==
    {"autotrader", "truecar", "cargurus", "AutoTrader", "Auto-Trader",
     "auto_trader", "TrueCar", "True-Car", "CAR_GURUS", "Car-Gurus"}

\* C1: for every key m of the default HD table and every retailer that is
\* not autotrader, truecar or cargurus (carmax and carvana included),
\* normalize_model_for_site(m, r) returns defaultTable[m].
C1_DefaultTableForOtherRetailers ==
    ("normalize" \in n_done
        /\ n_model \in DOMAIN DefaultTable
        /\ n_site \notin BothVariantSpellings)
    => n_result = DefaultTable[n_model]

\* C2: for every model and every retailer identifier that spells autotrader,
\* truecar or cargurus up to case, hyphens and underscores,
\* normalize_model_for_site returns the model unchanged and
\* should_normalize_model returns false.
C2_BothVariantSitesKeepModel ==
    n_site \in BothVariantSpellings
    => /\ "normalize" \in n_done => n_result = n_model
       /\ "should" \in n_done => n_should = FALSE

C2_Witness ==
    /\ n_site = "CAR_GURUS"
    /\ n_model = "Sierra 3500HD"
    /\ {"normalize", "should"} \subseteq n_done
    /\ n_result = "Sierra 3500HD"

\* C3: normalization is idempotent: normalizing an already normalized name
\* returns it unchanged, for every model (display or slug form) and every
\* retailer, and no value of a mapping table is a key of the same table,
\* literally or after slugification.
C3_NormalizeIdempotent ==
    /\ "renormalize" \in n_done => n_again = n_result
    /\ \A t \in DOMAIN SITE_MODEL_MAPPINGS :
          \A k \in DOMAIN SITE_MODEL_MAPPINGS[t] :
             /\ SITE_MODEL_MAPPINGS[t][k] \notin DOMAIN SITE_MODEL_MAPPINGS[t]
             /\ slugify(SITE_MODEL_MAPPINGS[t][k])
                   \notin DOMAIN SITE_MODEL_MAPPINGS[t]

C3_Witness ==
    /\ "renormalize" \in n_done
    /\ n_site = "car-max"
    /\ n_model = "Sierra_3500HD"
    /\ n_result = "sierra-3500"
    /\ n_again = "sierra-3500"

-----------------------------------------------------------------------------
(* Properties of the adapters and of the pattern fallback                  *)

AUTOTRADER == "adapt_structured_to_autotrader"
CARGURUS == "adapt_structured_to_cargurus"
CARMAX == "adapt_structured_to_carmax"
CARVANA == "adapt_structured_to_carvana_interactive"
TRUECAR == "adapt_structured_to_truecar"
FALLBACK == "parse_with_patterns_fallback"

\* the part of an AutoTrader URL between the host and the "?"
UrlPath(url) ==
    LET host == "https://www.autotrader.com"
        marks == {i \in 1..Len(url) : Char(url, i) = "?"}
    IN  IF marks = {} THEN SubSeq(url, Len(host) + 1, Len(url))
        ELSE SubSeq(url, Len(host) + 1, least(marks) - 1)

\* the key=value pairs of the query string of a URL, as a set
UrlPairs(url) ==
    LET marks == {i \in 1..Len(url) : Char(url, i) = "?"}
        from == IF marks = {} THEN Len(url) + 1 ELSE least(marks) + 1
        starts == {i \in from..Len(url) : i = from \/ Char(url, i - 1) = "&"}
        stop(i) == least({j \in i..(Len(url) + 1) : at(url, j) \in {"&", ""}})
    IN  {SubSeq(url, i, stop(i) - 1) : i \in starts} \ {""}

\* the values the query string of a URL gives to key
UrlValues(url, key) ==
    {SubSeq(p, Len(key) + 2, Len(p)) :
        p \in {pp \in UrlPairs(url) : startswith(pp, key \o "=")}}

\* the structured query of the specification's AutoTrader and TrueCar examples
ExampleQuery ==
    "makes" :> PyList(<<"GMC">>) @@ "models" :> PyList(<<"Sierra 3500HD">>)
    @@ "trims" :> PyList(<<"Denali Ultimate">>)
    @@ "location" :> PyDict("zip" :> PyStr("94002"))
    @@ "yearMin" :> PyInt(2023) @@ "yearMax" :> PyInt(2024)
    @@ "maxPrice" :> PyInt(100000)

\* the retailer name of a model: the HD-less name of the default HD table
HdLess(m) == IF m \in DOMAIN DefaultTable THEN DefaultTable[m] ELSE m

\* lowercase-hyphenated form of a name
Hyphenated(name) == replace(lower(name), " ", "-")

\* the non-empty list stored under key in the structured query, else <<>>
ListOf(d, key) == IF key \in DOMAIN d /\ d[key].type = "list" THEN d[key].value ELSE <<>>

\* C4: for the example query the AutoTrader adapter returns the path
\* /cars-for-sale/gmc/sierra-3500/denali-ultimate and exactly the pairs
\* zip=94002, searchRadius=500, startYear=2023, endYear=2024,
\* maxPrice=100000; in general the path is the color (when given), then the
\* lowercase-hyphenated make, HD-less model and trim.
C4_AutotraderExampleUrl ==
    a_called = AUTOTRADER =>
      /\ a_structured = ExampleQuery =>
           /\ UrlPath(a_result.value) = "/cars-for-sale/gmc/sierra-3500/denali-ultimate"
           /\ UrlPairs(a_result.value) =
                {"zip=94002", "searchRadius=500", "startYear=2023",
                 "endYear=2024", "maxPrice=100000"}
      /\ (/\ ListOf(a_structured, "makes") # <<>>
          /\ ListOf(a_structured, "models") # <<>>
          /\ ListOf(a_structured, "trims") # <<>>
          /\ "location" \notin DOMAIN a_structured) =>
           UrlPath(a_result.value) =
               "/cars-for-sale"
               \o (IF "color" \in DOMAIN a_structured
                   THEN "/" \o lower(a_structured["color"].value) ELSE "")
               \o "/" \o Hyphenated(ListOf(a_structured, "makes")[1])
               \o "/" \o Hyphenated(HdLess(ListOf(a_structured, "models")[1]))
               \o "/" \o Hyphenated(ListOf(a_structured, "trims")[1])

\* C5: for a non-empty models list the TrueCar adapter, the CarGurus adapter
\* and the fallback's truecar and cargurus entries emit the first model
\* verbatim, HD suffix retained.
C5_FullModelNameKept ==
    /\ (a_called \in {TRUECAR, CARGURUS} /\ ListOf(a_structured, "models") # <<>>) =>
          /\ "model" \in DOMAIN a_result.value
          /\ a_result.value["model"] = PyStr(ListOf(a_structured, "models")[1])
    /\ (a_called = FALLBACK /\ a_locals.models # <<>>) =>
          \A r \in {"truecar", "cargurus"} :
             /\ "model" \in DOMAIN a_result.value["retailers"].value[r].value
             /\ a_result.value["retailers"].value[r].value["model"]
                  = PyStr(a_locals.models[1])

C5_Witness ==
    /\ a_called = TRUECAR
    /\ a_structured = ExampleQuery
    /\ a_result.value["model"] = PyStr("Sierra 3500HD")

\* C6: for non-empty makes and models lists of any lengths the CarMax
\* adapter raises nothing and returns makes and models of the same length
\* min(len(makes), len(models)), each the prefix of the input list, the
\* models normalized for carmax.
C6_CarmaxPairsTruncated ==
    (/\ a_called = CARMAX
     /\ ListOf(a_structured, "makes") # <<>>
     /\ ListOf(a_structured, "models") # <<>>) =>
        LET makes == ListOf(a_structured, "makes")
            models == ListOf(a_structured, "models")
            n == min(Len(makes), Len(models))
        IN  /\ a_result.type = "dict"
            /\ {"makes", "models"} \subseteq DOMAIN a_result.value
            /\ a_result.value["makes"] = PyList(SubSeq(makes, 1, n))
            /\ a_result.value["models"] =
                 PyList([i \in 1..n |-> normalize_model_for_site(models[i], "carmax")])

C6_Witness ==
    /\ a_called = CARMAX
    /\ Len(ListOf(a_structured, "makes")) = 2
    /\ ListOf(a_structured, "models") = <<"Sierra 3500HD">>
    /\ a_result.value["makes"] = PyList(<<"GMC">>)
    /\ a_result.value["models"] = PyList(<<"Sierra 3500">>)

\* the HD-suffixed names of the known truck families
HdNames == {"Sierra 1500HD", "Sierra 2500HD", "Sierra 3500HD",
            "Silverado 1500HD", "Silverado 2500HD", "Silverado 3500HD"}

\* C7: every deterministic producer of CarMax and Carvana filters (the two
\* adapters and the fallback's carmax and carvana entries) emits, for an
\* HD-suffixed input model of a known family, the non-HD name with spaces.
C7_HdStrippedForCarmaxCarvana ==
    /\ (a_called = CARMAX /\ "models" \in DOMAIN a_result.value) =>
          \A i \in 1..Len(a_result.value["models"].value) :
             ListOf(a_structured, "models")[i] \in HdNames =>
                a_result.value["models"].value[i]
                   = DefaultTable[ListOf(a_structured, "models")[i]]
    /\ (a_called = CARVANA /\ ListOf(a_structured, "models") # <<>>
          /\ ListOf(a_structured, "models")[1] \in HdNames) =>
          a_result.value["model"]
             = PyStr(DefaultTable[ListOf(a_structured, "models")[1]])
    /\ (a_called = FALLBACK /\ a_locals.models # <<>>
          /\ a_locals.models[1] \in HdNames) =>
          /\ a_result.value["retailers"].value["carmax"].value["models"]
               = PyList(<<DefaultTable[a_locals.models[1]]>>)
          /\ a_result.value["retailers"].value["carvana"].value["model"]
               = PyStr(DefaultTable[a_locals.models[1]])

\* the value stored under key in dict d, formatted, or "" when absent
Supplied(d, key) == IF key \in DOMAIN d THEN fmt(d[key]) ELSE ""

\* the first of the texts that is not empty
FirstGiven(texts) ==
    IF \E i \in 1..Len(texts) : texts[i] # ""
    THEN texts[least({i \in 1..Len(texts) : texts[i] # ""})] ELSE ""

\* the dict stored under key in d, or the empty dict
DictOf(d, key) == IF key \in DOMAIN d THEN d[key].value ELSE <<>>

\* C8: for every input the AutoTrader adapter accepts (legacy dict with zip
\* given directly, under location or not at all; retailer format with zip
\* only, searchRadius only, both or neither) the query string of the URL
\* holds a zip and a searchRadius parameter, equal to the supplied values,
\* and to 94002 and 500 when not supplied.
C8_AutotraderZipAndRadius ==
    a_called = AUTOTRADER =>
       LET retailer_format == "url_params" \in DOMAIN a_structured
                              \/ "path_components" \in DOMAIN a_structured
           zip == IF retailer_format
                  THEN Supplied(DictOf(a_structured, "url_params"), "zip")
                  ELSE FirstGiven(<<Supplied(a_structured, "zip"),
                                    Supplied(DictOf(a_structured, "location"), "zip")>>)
           radius == IF retailer_format
                     THEN Supplied(DictOf(a_structured, "url_params"), "searchRadius")
                     ELSE FirstGiven(<<Supplied(a_structured, "radius"),
                                       Supplied(DictOf(a_structured, "location"), "radius")>>)
       IN  /\ UrlValues(a_result.value, "zip") = {FirstGiven(<<zip, "94002">>)}
           /\ UrlValues(a_result.value, "searchRadius") = {FirstGiven(<<radius, "500">>)}

\* C9: the CarGurus adapter raises nothing on a structured query without
\* location or other optional fields, and its output always holds zip and
\* distance: the location's zip and radius when given, defaults only when
\* they are absent.
C9_CargurusZipAndDistance ==
    a_called = CARGURUS =>
       LET location == DictOf(a_structured, "location")
       IN  /\ a_result.type = "dict"
           /\ {"zip", "distance"} \subseteq DOMAIN a_result.value
           /\ "zip" \in DOMAIN location => a_result.value["zip"] = location["zip"]
           /\ "radius" \in DOMAIN location =>
                 a_result.value["distance"] = location["radius"]

\* C10: every TrueCar filter dict, from the TrueCar adapter or from the
\* pattern fallback, contains postalCode and searchRadius.
C10_TruecarRequiredFields ==
    /\ a_called = TRUECAR =>
          {"postalCode", "searchRadius"} \subseteq DOMAIN a_result.value
    /\ a_called = FALLBACK =>
          {"postalCode", "searchRadius"}
             \subseteq DOMAIN a_result.value["retailers"].value["truecar"].value

\* the drivetrain intent of the input: of the structured query given to an
\* adapter, and of the query text given to the fallback
FourWheelIntent ==
    \/ a_kind = "structured" /\ Supplied(a_structured, "drivetrain") = "Four Wheel Drive"
    \/ a_kind = "query" /\ \E w \in {"4wd", "4x4", "four wheel drive"} :
                              contains(lower(a_query), w)

AllWheelIntent ==
    \/ a_kind = "structured" /\ Supplied(a_structured, "drivetrain") = "All Wheel Drive"
    \/ a_kind = "query" /\ ~FourWheelIntent
                        /\ \E w \in {"awd", "all wheel drive"} :
                              contains(lower(a_query), w)

\* the drivetrain value emitted for a retailer by the call that was made:
\* by that retailer's adapter, or in that retailer's entry of the fallback
EmittedDrivetrain(adapter, retailer) ==
    IF a_called = adapter THEN Supplied(a_result.value, "drivetrain")
    ELSE Supplied(a_result.value["retailers"].value[retailer].value, "drivetrain")

\* C11: with a four-wheel-drive intent the drivetrain emitted for CarGurus is
\* FOUR_WHEEL_DRIVE, for TrueCar 4WD and for CarMax "Four Wheel Drive"; with
\* an all-wheel-drive intent ALL_WHEEL_DRIVE, AWD and "All Wheel Drive".
C11_DrivetrainVocabulary ==
    \A r \in {<<CARGURUS, "cargurus", "FOUR_WHEEL_DRIVE", "ALL_WHEEL_DRIVE">>,
              <<TRUECAR, "truecar", "4WD", "AWD">>,
              <<CARMAX, "carmax", "Four Wheel Drive", "All Wheel Drive">>} :
       a_called \in {r[1], FALLBACK} =>
          /\ FourWheelIntent => EmittedDrivetrain(r[1], r[2]) = r[3]
          /\ AllWheelIntent => EmittedDrivetrain(r[1], r[2]) = r[4]

\* the filter categories of C12 with the output keys that carry them and the
\* structured-query keys that supply them
FilterCategories ==
    {[out |-> {"make", "makes"}, given |-> {"makes"}, local |-> "makes"],
     [out |-> {"model", "models"}, given |-> {"models"}, local |-> "models"],
     [out |-> {"trim", "trims"}, given |-> {"trims"}, local |-> "trims"],
     [out |-> {"color", "colors", "exteriorColor"},
      given |-> {"color", "exteriorColor", "interiorColor"}, local |-> "color"],
     [out |-> {"drivetrain"}, given |-> {"drivetrain"}, local |-> "drivetrain"],
     [out |-> {"year", "yearMin", "startYear"}, given |-> {"year", "yearMin"},
      local |-> "year_min"],
     [out |-> {"yearMax", "endYear"}, given |-> {"year", "yearMax"},
      local |-> "year_max"],
     [out |-> {"maxPrice", "max_price", "budget"}, given |-> {"maxPrice"},
      local |-> "max_price"]}

LocationKeys == {"zip", "distance", "postalCode", "searchRadius"}

\* the category's value was found in the input of the call that was made
Found(cat) ==
    IF a_kind = "structured"
    THEN \E k \in cat.given : k \in DOMAIN a_structured /\ truthy(a_structured[k])
    ELSE IF cat.local \in {"makes", "models", "trims"}
         THEN a_locals[cat.local] # <<>>
         ELSE a_locals[cat.local] # PyNone

\* the retailer outputs of the call that was made: the dicts, and the URLs
OutputDicts ==
    IF a_called = FALLBACK
    THEN {a_result.value["retailers"].value[r].value :
             r \in {"cargurus", "carmax", "carvana", "truecar"}}
    ELSE IF a_called \in {CARGURUS, CARMAX, CARVANA, TRUECAR} /\ a_result.type = "dict"
         THEN {a_result.value} ELSE {}

OutputUrls ==
    IF a_called = FALLBACK THEN {a_result.value["retailers"].value["autotrader"].value}
    ELSE IF a_called = AUTOTRADER /\ ~("url_params" \in DOMAIN a_structured
                                       \/ "path_components" \in DOMAIN a_structured)
         THEN {a_result.value} ELSE {}

\* C12: a retailer output of the fallback or of an adapter carries a make,
\* model, trim, color, drivetrain, year or price entry only if that value was
\* found in the input; with none of them found the dicts hold nothing but
\* zip/radius location fields and the AutoTrader path is /cars-for-sale
\* (followed only by the city-state of a structured query's location) with
\* no make or model segment.
C12_NoPlaceholderValues ==
    /\ \A d \in OutputDicts : \A cat \in FilterCategories :
          (cat.out \cap DOMAIN d # {}) => Found(cat)
    /\ (a_called # "none" /\ \A cat \in FilterCategories : ~Found(cat)) =>
          /\ \A d \in OutputDicts : DOMAIN d \subseteq LocationKeys
          /\ \A url \in OutputUrls :
                /\ \/ UrlPath(url) = "/cars-for-sale"
                   \/ /\ a_kind = "structured"
                      /\ "city" \in DOMAIN DictOf(a_structured, "location")
                      /\ UrlPath(url) =
                           "/cars-for-sale/"
                           \o Hyphenated(DictOf(a_structured, "location")["city"].value)
                           \o "-"
                           \o lower(DictOf(a_structured, "location")["state"].value)
                /\ \A p \in UrlPairs(url) :
                      \E k \in {"zip", "searchRadius"} : startswith(p, k \o "=")

\* the groups <<N, Z>> of the leftmost "within N miles of Z" of the text,
\* <<>> when there is none
WithinMilesOf(text) ==
    LET hits == {i \in 1..Len(text) : radius_match_at(text, i) # <<>>}
    IN  IF hits = {} THEN <<>> ELSE radius_match_at(text, least(hits))

\* the five digits following the leftmost near/around/zip/of of the text
ZipAfterWord(text) ==
    LET hits == {i \in 1..Len(text) : zip_match_at(text, i) # ""}
    IN  IF hits = {} THEN "" ELSE zip_match_at(text, least(hits))

\* the first standalone 5-digit token of the text
StandaloneZip(text) ==
    LET hits == {i \in 1..Len(text) : zip_standalone_at(text, i) # ""}
    IN  IF hits = {} THEN "" ELSE zip_standalone_at(text, least(hits))

\* C13: if the query contains "within N miles of Z" then search_radius = N
\* and zip_code = Z, for every natural number N; otherwise zip_code is the
\* five digits following near/around/zip/of, else the first standalone
\* 5-digit token, else 94002, and search_radius is 500.
C13_LocationPriority ==
    a_called = FALLBACK =>
       LET within == WithinMilesOf(lower(a_query))
       IN  IF within # <<>>
           THEN /\ a_locals.search_radius = int(within[1])
                /\ a_locals.zip_code = within[2]
           ELSE /\ a_locals.search_radius = 500
                /\ a_locals.zip_code =
                     FirstGiven(<<ZipAfterWord(lower(a_query)),
                                  StandaloneZip(a_query), "94002">>)

\* the candidate years of C14: the 4-digit tokens of the text that begin
\* with "20", a token being a maximal run of digits
YearTokens(text) ==
    {int(SubSeq(text, i, i + 3)) :
        i \in {j \in 1..Len(text) :
                  /\ lit_at(text, j, "20")
                  /\ is_digit(at(text, j + 2)) /\ is_digit(at(text, j + 3))
                  /\ ~is_digit(at(text, j - 1)) /\ ~is_digit(at(text, j + 4))}}

\* C14: the candidate years are exactly the 4-digit tokens beginning with
\* "20" (digits inside a longer number are not candidates); year_min is the
\* smallest and year_max the largest candidate, both unset when there is
\* none, so year_min <= year_max whenever they are set.
C14_YearCandidates ==
    a_called = FALLBACK =>
       LET years == YearTokens(a_query)
       IN  IF years = {}
           THEN a_locals.year_min = PyNone /\ a_locals.year_max = PyNone
           ELSE /\ a_locals.year_min = PyInt(least(years))
                /\ a_locals.year_max =
                     PyInt(CHOOSE y \in years : \A z \in years : y >= z)
                /\ a_locals.year_min.value <= a_locals.year_max.value

\* C15: for every query made of a year range Y1-Y2, one make, (a model,) one
\* trim, "within N miles of Z" and "under P" the fallback extracts
\* zip_code = Z, search_radius = N, year_min = Y1, year_max = Y2,
\* max_price = P, makes = [that make] and that trim, whatever the digits of
\* Z, N and P.
C15_ExampleFormExtraction ==
    a_called = FALLBACK =>
       \A md \in QueryModels, trim \in {"Denali Ultimate", "Laramie"},
          N \in {"500", "50", "0"}, Z \in {"94002", "20500", "10001"},
          P \in {"100000", "20000"} :
          a_query = "2023-2024 GMC " \o md \o trim \o " within " \o N
                    \o " miles of " \o Z \o " under " \o P =>
             /\ a_locals.zip_code = Z
             /\ a_locals.search_radius = int(N)
             /\ a_locals.year_min = PyInt(2023)
             /\ a_locals.year_max = PyInt(2024)
             /\ a_locals.max_price = PyInt(int(P))
             /\ a_locals.makes = <<"GMC">>
             /\ a_locals.trims = <<trim>>

\* the StructuredQuery holding the values the fallback extracted: canonical
\* field names, the drivetrain in canonical words, zip and radius under
\* location
StructuredOf(x) ==
    entry_if(x.makes # <<>>, "makes", PyList(x.makes))
    @@ entry_if(x.models # <<>>, "models", PyList(x.models))
    @@ entry_if(x.trims # <<>>, "trims", PyList(x.trims))
    @@ entry_if(x.year_min # PyNone, "yearMin", x.year_min)
    @@ entry_if(x.year_max # PyNone, "yearMax", x.year_max)
    @@ entry_if(x.max_price # PyNone, "maxPrice", x.max_price)
    @@ entry_if(x.color # PyNone, "exteriorColor", x.color)
    @@ entry_if(x.drivetrain # PyNone, "drivetrain",
                PyStr(title(replace(IF x.drivetrain # PyNone
                                    THEN x.drivetrain.value ELSE "", "_", " "))))
    @@ "location" :> PyDict("zip" :> PyStr(x.zip_code)
                            @@ "radius" :> PyInt(x.search_radius))

\* C16: each retailer entry the fallback produces equals what that
\* retailer's adapter returns for the StructuredQuery holding the values
\* the fallback extracted.
C16_FallbackMatchesAdapters ==
    a_called = FALLBACK =>
       LET entry(r) == a_result.value["retailers"].value[r]
           sq == StructuredOf(a_locals)
       IN  /\ entry("autotrader") = adapt_structured_to_autotrader(sq)
           /\ entry("cargurus") = adapt_structured_to_cargurus(sq)
           /\ entry("carmax") = adapt_structured_to_carmax(sq)
           /\ entry("carvana") = adapt_structured_to_carvana_interactive(sq)
           /\ entry("truecar") = adapt_structured_to_truecar(sq)

-----------------------------------------------------------------------------
(* The query parser process: catalog files, the LLM step and parse_query   *)

\* the retailers of load_all_filter_jsons, in the order of its dict
Retailers == <<"autotrader", "cargurus", "carmax", "carvana", "truecar">>

\* the states of a catalog file: not there, there but not readable by the
\* process, or there with a text
AbsentFile == [exists |-> FALSE, readable |-> FALSE, text |-> ""]
UnreadableFile == [exists |-> TRUE, readable |-> FALSE, text |-> ""]
FileWith(text) == [exists |-> TRUE, readable |-> TRUE, text |-> text]

\* the retailer outputs of an LLM answer
LlmRetailers ==
    PyDict("carmax" :> PyDict("makes" :> PyList(<<"GMC">>))
           @@ "truecar" :> PyDict("make" :> PyStr("GMC")))

\* json.loads on the texts that occur as file contents and LLM answers: the
\* value of each JSON document; every other text is not JSON
JsonDocuments ==
    "{\"retailer\": \"CarMax\", \"filters\": []}" :>
        PyDict("retailer" :> PyStr("CarMax") @@ "filters" :> PyList(<<>>))
    @@ "{\"filters\": [], \"url_format\": {}}" :>
        PyDict("filters" :> PyList(<<>>) @@ "url_format" :> PyDict(<<>>))
    @@ "[]" :> PyList(<<>>)
    @@ "null" :> PyNone
    @@ "42" :> PyInt(42)
    @@ "\"GMC\"" :> PyStr("GMC")
    @@ "{}" :> PyDict(<<>>)
    @@ "{\"retailers\": {}}" :> PyDict("retailers" :> PyDict(<<>>))
    @@ "{\"retailers\": {\"carmax\": {\"makes\": [\"GMC\"]}, \"truecar\": {\"make\": \"GMC\"}}}" :>
        PyDict("retailers" :> LlmRetailers)
    @@ "{\"query\": \"a car\", \"retailers\": {\"carmax\": {\"makes\": [\"GMC\"]}, \"truecar\": {\"make\": \"GMC\"}}}" :>
        PyDict("query" :> PyStr("a car") @@ "retailers" :> LlmRetailers)
    @@ "{\"error\": \"ambiguous\", \"retailers\": {\"carmax\": {\"makes\": [\"GMC\"]}, \"truecar\": {\"make\": \"GMC\"}}}" :>
        PyDict("error" :> PyStr("ambiguous") @@ "retailers" :> LlmRetailers)

json_loads(text) ==
    IF text \in DOMAIN JsonDocuments THEN JsonDocuments[text]
    ELSE PyRaise("JSONDecodeError")

\* load_all_filter_jsons(): the dict of the catalogs of the files that
\* exist, or the exception of the first file that cannot be read or parsed
load_all_filter_jsons(files) ==
    LET present == {i \in 1..Len(Retailers) : files[Retailers[i]].exists}
        read(i) == IF files[Retailers[i]].readable
                   THEN json_loads(files[Retailers[i]].text)
                   ELSE PyRaise("PermissionError")
        failing == {i \in present : read(i).type = "raise"}
        index(r) == CHOOSE i \in 1..Len(Retailers) : Retailers[i] = r
    IN  IF failing # {} THEN read(least(failing))
        ELSE PyDict([r \in {Retailers[i] : i \in present} |-> read(index(r))])

\* build_system_prompt(filters): the retailer headings of the prompt (the
\* fixed text that follows them is left out), or the AttributeError of
\* data.get on a catalog that is not a dict
build_system_prompt(filters) ==
    LET loaded == SelectSeq(Retailers, LAMBDA r : r \in DOMAIN filters)
        heading(r) ==
            "**" \o (IF "retailer" \in DOMAIN filters[r].value
                     THEN fmt(filters[r].value["retailer"]) ELSE capitalize(r))
            \o "** (" \o r \o ")"
    IN  IF \E r \in DOMAIN filters : filters[r].type # "dict"
        THEN PyRaise("AttributeError")
        ELSE PyStr(join([i \in 1..Len(loaded) |-> heading(loaded[i])], ""))

\* the {error, query, retailers: {}} dict parse_with_llm and
\* parse_query_async return on failure
error_result(message, query) ==
    PyDict("error" :> PyStr(message) @@ "query" :> PyStr(query)
           @@ "retailers" :> PyDict(<<>>))

llm_provider_DefaultOpenai(env) ==
    IF {"GLM_API_KEY", "ZHIPU_API_KEY"} \cap env.keys # {} THEN "glm"
    ELSE IF "DEEPSEEK_API_KEY" \in env.keys THEN "deepseek"
    ELSE "openai"

\* the provider whose credentials parse_with_llm picks from the environment,
\* "" when none is set
llm_provider(env) ==
    IF "OPENAI_API_KEY" \in env.keys THEN "openai"
    ELSE IF {"GLM_API_KEY", "ZHIPU_API_KEY"} \cap env.keys # {} THEN "glm"
    ELSE IF "DEEPSEEK_API_KEY" \in env.keys THEN "deepseek"
    ELSE ""

\* parse_with_llm up to the await of the completion request: the dict it
\* returns or the exception it raises before sending anything, PyNone when
\* the request has been sent
parse_with_llm_request(query, filters, env) ==
    IF ~env.openai
    THEN error_result("OpenAI module not installed. Run: pip install openai", query)
    ELSE IF build_system_prompt(filters).type = "raise"
    THEN build_system_prompt(filters)
    ELSE IF llm_provider(env) = ""
    THEN error_result("No API key found. Set OPENAI_API_KEY, GLM_API_KEY, or DEEPSEEK_API_KEY environment variable.", query)
    ELSE PyNone

\* str.strip()
strip(s) ==
    LET kept == {i \in 1..Len(s) : ~is_space(Char(s, i))}
    IN  IF kept = {} THEN ""
        ELSE SubSeq(s, least(kept), CHOOSE i \in kept : \A j \in kept : i >= j)

\* the markdown code fence; the three backquotes of the source are written
\* as three tildes, the backquote not being a character of TLA+ strings
Fence == "~~~"

\* content.split('\n', 1)[-1].rsplit('\n', 1)[0]
strip_code_block(content) ==
    LET breaks(s) == {i \in 1..Len(s) : Char(s, i) = "\n"}
        after_first == IF breaks(content) = {} THEN content
                       ELSE SubSeq(content, least(breaks(content)) + 1, Len(content))
        last_break == CHOOSE i \in breaks(after_first) :
                         \A j \in breaks(after_first) : i >= j
    IN  IF breaks(after_first) = {} THEN after_first
        ELSE SubSeq(after_first, 1, last_break - 1)

\* parse_with_llm from the completion of the request on: outcome is the
\* exception raised by the client, or the message content of the answer
\* (PyNone for a message without content)
parse_with_llm_response(query, outcome) ==
    IF outcome.type = "raise"
    THEN error_result("LLM call failed: " \o outcome.value, query)
    ELSE LET content == strip(IF outcome = PyNone THEN "" ELSE outcome.value)
             text == IF startswith(content, Fence) THEN strip_code_block(content)
                     ELSE content
             result == json_loads(text)
         IN  IF result.type = "raise"
             THEN error_result("LLM call failed: " \o result.value, query)
             ELSE IF result.type # "dict"
             THEN error_result("LLM call failed: TypeError", query)
             ELSE PyDict(("query" :> PyStr(query)) @@ result.value)

llm_result_or_fallback_IgnoreError(query, filters, result) ==
    IF truthy(get(result.value, "retailers"))
    THEN result
    ELSE parse_with_patterns_fallback(query, filters)

\* the end of parse_query_async with use_llm: the LLM result when it has no
\* error and a truthy retailers entry, the pattern fallback otherwise
llm_result_or_fallback(query, filters, result) ==
    IF "error" \notin DOMAIN result.value /\ truthy(get(result.value, "retailers"))
    THEN result
    ELSE parse_with_patterns_fallback(query, filters)

-----------------------------------------------------------------------------
(* parse_query in the parser process                                       *)

CatalogV1 == "{\"retailer\": \"CarMax\", \"filters\": []}"
CatalogV2 == "{\"filters\": [], \"url_format\": {}}"

\* the states a catalog file can be in: absent, unreadable, a catalog
\* object (two versions), a JSON document that is not an object, and a
\* truncated, malformed text
FileStates ==
    {AbsentFile, UnreadableFile, FileWith(CatalogV1), FileWith(CatalogV2),
     FileWith("[]"), FileWith("{\"retailer\": \"CarMax\", \"filt")}

\* the states of the five files: the CarMax file in any state, the other
\* four in one common state
FileConfigs ==
    {[r \in {Retailers[i] : i \in 1..Len(Retailers)} |->
         IF r = "carmax" THEN c ELSE o] : c \in FileStates, o \in FileStates}

\* the environments of the process: the openai library importable or not,
\* no credentials or those of one provider
Environments ==
    {[openai |-> o, keys |-> k] :
        o \in BOOLEAN,
        k \in {{}, {"OPENAI_API_KEY"}, {"ZHIPU_API_KEY"}, {"DEEPSEEK_API_KEY"}}}

ParserQueries == {"a car", "2023 GMC Sierra 3500HD near 10001"}

GoodAnswer == "{\"retailers\": {\"carmax\": {\"makes\": [\"GMC\"]}, \"truecar\": {\"make\": \"GMC\"}}}"

\* what the completion request can come back with: an exception of the
\* client (connection error, non-2xx status), a message without content, or
\* a message whose content is one of these texts
LlmOutcomes ==
    {PyRaise("APIError"), PyNone}
    \cup {PyStr(t) : t \in
            {GoodAnswer,
             "  " \o GoodAnswer \o "\n",
             Fence \o "json\n" \o GoodAnswer \o "\n" \o Fence,
             Fence \o GoodAnswer \o Fence,
             "{\"query\": \"a car\", \"retailers\": {\"carmax\": {\"makes\": [\"GMC\"]}, \"truecar\": {\"make\": \"GMC\"}}}",
             "{\"error\": \"ambiguous\", \"retailers\": {\"carmax\": {\"makes\": [\"GMC\"]}, \"truecar\": {\"make\": \"GMC\"}}}",
             "{\"retailers\": {}}", "{}", "[]", "null", "42", "\"GMC\"",
             "Sorry, I cannot map this query.", ""}}

InitParser ==
    /\ InitNormalizerIdle
    /\ InitAdaptersIdle
    /\ InitVpnIdle
    /\ InitWorkerIdle
    /\ p_files \in FileConfigs
    /\ p_changes = 0
    /\ p_env \in Environments
    /\ p_query \in ParserQueries
    /\ p_use_llm \in BOOLEAN
    /\ p_pc = "idle"
    /\ p_filters = <<>>
    /\ p_outcome = NotSent
    /\ p_llm = PyNone
    /\ p_result = PyNone
    /\ p_loads = <<>>
    /\ c_cache = PyNone
    /\ c_returns = <<>>

\* main calls parse_query(query, use_llm): parse_query_async runs up to its
\* return, to the exception that leaves it, or to the await of the
\* completion request inside parse_with_llm
ParseQuery ==
    /\ p_pc = "idle"
    /\ LET loaded == load_all_filter_jsons(p_files)
           sent == parse_with_llm_request(p_query, loaded.value, p_env)
       IN  /\ p_loads' = Append(p_loads, loaded)
           /\ IF loaded.type = "raise"
              THEN /\ p_pc' = "raised"
                   /\ p_result' = loaded
                   /\ UNCHANGED <<p_filters, p_llm>>
              ELSE /\ p_filters' = loaded.value
                   /\ IF DOMAIN loaded.value = {}
                      THEN /\ p_pc' = "done"
                           /\ p_result' = error_result(
                                  "No filter JSONs found in data/ directory", p_query)
                           /\ UNCHANGED p_llm
                      ELSE IF ~p_use_llm
                      THEN /\ p_pc' = "done"
                           /\ p_result' =
                                parse_with_patterns_fallback(p_query, loaded.value)
                           /\ UNCHANGED p_llm
                      ELSE IF sent = PyNone
                      THEN /\ p_pc' = "awaiting"
                           /\ UNCHANGED <<p_llm, p_result>>
                      ELSE IF sent.type = "raise"
                      THEN /\ p_pc' = "raised"
                           /\ p_result' = sent
                           /\ UNCHANGED p_llm
                      ELSE /\ p_pc' = "done"
                           /\ p_llm' = sent
                           /\ p_result' =
                                llm_result_or_fallback(p_query, loaded.value, sent)
    /\ UNCHANGED <<p_files, p_changes, p_env, p_query, p_use_llm, p_outcome,
                   c_cache, c_returns>>
    /\ UNCHANGED <<nvars, avars>>
    /\ UNCHANGED <<vvars, wvars>>

\* the completion request comes back: parse_with_llm returns and
\* parse_query_async returns its result or the pattern fallback
LlmResponds ==
    /\ p_pc = "awaiting"
    /\ \E outcome \in LlmOutcomes :
          /\ p_outcome' = outcome
          /\ p_llm' = parse_with_llm_response(p_query, outcome)
          /\ p_result' = llm_result_or_fallback(p_query, p_filters, p_llm')
    /\ p_pc' = "done"
    /\ UNCHANGED <<p_files, p_changes, p_env, p_query, p_use_llm, p_filters,
                   p_loads, c_cache, c_returns>>
    /\ UNCHANGED <<nvars, avars>>
    /\ UNCHANGED <<vvars, wvars>>

NextParser == ParseQuery \/ LlmResponds

SpecParser == InitParser /\ [][NextParser]_vars

-----------------------------------------------------------------------------
(* Properties of parse_query                                               *)

\* the call of parse_query is over: it returned or raised
CallOver == p_pc \in {"done", "raised"}

\* at least one catalog was loaded, and every loaded catalog is an object
CatalogsLoaded ==
    /\ Len(p_loads) = 1 /\ p_loads[1].type = "dict"
    /\ DOMAIN p_loads[1].value # {}
    /\ \A r \in DOMAIN p_loads[1].value : p_loads[1].value[r].type = "dict"

\* the answers of the LLM that are a JSON object with no error key and a
\* non-empty retailers entry, bare, padded with white space or fenced
GoodAnswers ==
    {PyStr(t) : t \in
        {GoodAnswer, "  " \o GoodAnswer \o "\n",
         Fence \o "json\n" \o GoodAnswer \o "\n" \o Fence,
         "{\"query\": \"a car\", \"retailers\": {\"carmax\": {\"makes\": [\"GMC\"]}, \"truecar\": {\"make\": \"GMC\"}}}"}}

\* C17: with at least one catalog loaded and use_llm true, parse_query
\* returns the LLM result, its query key set to the caller's query, exactly
\* when the LLM step produced a JSON object with no error key and a
\* non-empty retailers entry; for every other outcome (library missing, no
\* credentials, exception, non-JSON or non-object body, missing or empty
\* retailers) it returns the pattern fallback result and raises nothing.
C17_LlmResultOrFallback ==
    (CallOver /\ p_use_llm /\ CatalogsLoaded) =>
       /\ p_pc = "done"
       /\ IF p_outcome \in GoodAnswers
          THEN p_result = PyDict("query" :> PyStr(p_query) @@ "retailers" :> LlmRetailers)
          ELSE /\ p_result = parse_with_patterns_fallback(p_query, p_filters)
               /\ p_result.value["method"] = PyStr("pattern_fallback")

C17_Witness ==
    /\ CallOver /\ p_use_llm /\ CatalogsLoaded
    /\ p_outcome = PyStr("{\"error\": \"ambiguous\", \"retailers\": {\"carmax\": {\"makes\": [\"GMC\"]}, \"truecar\": {\"make\": \"GMC\"}}}")
    /\ p_result.value["method"] = PyStr("pattern_fallback")

\* none of the provider credentials is set
NoCredentials ==
    p_env.keys \cap {"OPENAI_API_KEY", "GLM_API_KEY", "ZHIPU_API_KEY",
                     "DEEPSEEK_API_KEY"} = {}

\* C18: when none of the provider credentials is set, the result handed to
\* the caller of parse_query with use_llm true carries an explicit error
\* entry, and no exception is raised.
C18_NoCredentialsErrorToCaller ==
    (CallOver /\ p_use_llm /\ CatalogsLoaded /\ NoCredentials) =>
       /\ p_pc = "done"
       /\ "error" \in DOMAIN p_result.value

\* C18 as the code has it: when none of the provider credentials is set (and
\* the client library is importable), parse_with_llm returns, without
\* raising, an explicit error entry reporting the missing credentials with
\* empty retailers; parse_query_async replaces it by the pattern fallback
\* result, so the caller of parse_query gets retailer outputs and no error
\* entry.
C18_NoCredentialsErrorThenFallback ==
    (CallOver /\ p_use_llm /\ CatalogsLoaded /\ NoCredentials /\ p_env.openai) =>
       /\ p_pc = "done"
       /\ p_llm = error_result("No API key found. Set OPENAI_API_KEY, GLM_API_KEY, or DEEPSEEK_API_KEY environment variable.", p_query)
       /\ p_outcome = NotSent
       /\ p_result = parse_with_patterns_fallback(p_query, p_filters)
       /\ "error" \notin DOMAIN p_result.value

C18_Witness ==
    /\ CallOver /\ p_use_llm /\ CatalogsLoaded /\ NoCredentials /\ p_env.openai
    /\ "error" \in DOMAIN p_llm.value
    /\ p_result.value["method"] = PyStr("pattern_fallback")

\* C19: parse_query never raises and always returns a dict containing query
\* and retailers, for every query, every LLM outcome and every state of each
\* catalog file (present, absent, unreadable, malformed); an error entry
\* appears only when no retailer output was produced.
C19_AlwaysReturnsResult ==
    CallOver =>
       /\ p_pc = "done"
       /\ p_result.type = "dict"
       /\ {"query", "retailers"} \subseteq DOMAIN p_result.value
       /\ "error" \in DOMAIN p_result.value =>
             ~truthy(p_result.value["retailers"])

-----------------------------------------------------------------------------
(* Catalog loading over the lifetime of a process                          *)

MaxLoads == 2
MaxFileChanges == 1

\* load_filter_catalog() of the CarMax scraper on the global _filter_catalog
\* (cache) and the catalog file: the value returned or the exception
\* raised, whether the file was opened, and the new value of the global
load_filter_catalog(cache, file) ==
    IF cache # PyNone
    THEN [value |-> cache, read |-> FALSE, cache |-> cache]
    ELSE IF file.exists
    THEN LET loaded == IF file.readable THEN json_loads(file.text)
                       ELSE PyRaise("PermissionError")
         IN  [value |-> loaded, read |-> TRUE,
              cache |-> IF loaded.type = "raise" THEN cache ELSE loaded]
    ELSE [value |-> PyDict("filters" :> PyDict(<<>>)), read |-> FALSE,
          cache |-> PyDict("filters" :> PyDict(<<>>))]

InitCatalog ==
    /\ InitNormalizerIdle
    /\ InitAdaptersIdle
    /\ InitVpnIdle
    /\ InitWorkerIdle
    /\ p_files \in FileConfigs
    /\ p_changes = 0
    /\ p_env = [openai |-> FALSE, keys |-> {}]
    /\ p_query = ""
    /\ p_use_llm = FALSE
    /\ p_pc = "idle"
    /\ p_filters = <<>>
    /\ p_outcome = NotSent
    /\ p_llm = PyNone
    /\ p_result = PyNone
    /\ p_loads = <<>>
    /\ c_cache = PyNone
    /\ c_returns = <<>>

\* a parse_query_async call of the parser process loads the catalogs
LoadAllFilterJsons ==
    /\ Len(p_loads) < MaxLoads
    /\ p_loads' = Append(p_loads, load_all_filter_jsons(p_files))
    /\ UNCHANGED <<p_files, p_changes, p_env, p_query, p_use_llm, p_pc, p_filters,
                   p_outcome, p_llm, p_result, c_cache, c_returns>>
    /\ UNCHANGED <<nvars, avars>>
    /\ UNCHANGED <<vvars, wvars>>

\* the CarMax scraper process asks for its catalog
LoadFilterCatalog ==
    /\ Len(c_returns) < MaxLoads
    /\ LET call == load_filter_catalog(c_cache, p_files["carmax"])
       IN  /\ c_cache' = call.cache
           /\ c_returns' = Append(c_returns,
                  [value |-> call.value, read |-> call.read,
                   file |-> p_files["carmax"]])
    /\ UNCHANGED <<p_files, p_changes, p_env, p_query, p_use_llm, p_pc, p_filters,
                   p_outcome, p_llm, p_result, p_loads>>
    /\ UNCHANGED <<nvars, avars>>
    /\ UNCHANGED <<vvars, wvars>>

\* the CarMax catalog file is created, rewritten or removed while the
\* processes run
ChangeFile ==
    /\ p_changes < MaxFileChanges
    /\ \E state \in FileStates \ {p_files["carmax"]} :
          p_files' = [p_files EXCEPT !["carmax"] = state]
    /\ p_changes' = p_changes + 1
    /\ UNCHANGED <<p_env, p_query, p_use_llm, p_pc, p_filters, p_outcome, p_llm,
                   p_result, p_loads, c_cache, c_returns>>
    /\ UNCHANGED <<nvars, avars>>
    /\ UNCHANGED <<vvars, wvars>>

NextCatalog == LoadAllFilterJsons \/ LoadFilterCatalog \/ ChangeFile

SpecCatalog == InitCatalog /\ [][NextCatalog]_vars

\* C20: catalog loading is idempotent and cached for the process lifetime:
\* once a load call has returned a retailer's catalog, every later call
\* returns the same content without reading the file again, even if the
\* file has since appeared, changed or vanished, and an absent file yields
\* an empty catalog, not an error.
C20_CatalogCachedForProcess ==
    /\ \A i, j \in 1..Len(c_returns) :
          (i < j /\ c_returns[i].value.type # "raise") =>
             /\ c_returns[j].value = c_returns[i].value
             /\ ~c_returns[j].read
    /\ \A i \in 1..Len(c_returns) :
          ~c_returns[i].file.exists => c_returns[i].value.type # "raise"
    /\ \A i, j \in 1..Len(p_loads) :
          (i < j /\ p_loads[i].type = "dict") =>
             \A r \in DOMAIN p_loads[i].value :
                /\ p_loads[j].type = "dict"
                /\ r \in DOMAIN p_loads[j].value
                /\ p_loads[j].value[r] = p_loads[i].value[r]

\* ---------------------------------------------------------------------------
\* Year and price entries of the retailer dicts (C21)
\* ---------------------------------------------------------------------------

\* the output keys that carry a year or a price
YearPriceKeys ==
    {"year", "yearMin", "yearMax", "startYear", "endYear",
     "minPrice", "maxPrice", "max_price", "budget"}

\* the integers the call was given (structured query) or extracted (fallback)
GivenIntegers ==
    IF a_kind = "structured"
    THEN {a_structured[k] : k \in {"year", "yearMin", "yearMax", "minPrice",
                                    "maxPrice"} \cap DOMAIN a_structured}
    ELSE {a_locals[k] : k \in {"year_min", "year_max", "max_price"}}

\* C21: in every retailer dict emitted by an adapter or by the fallback, a
\* year or price entry is an integer (never the integer's string form) and
\* it is one of the integers that were supplied or extracted.
C21_YearPriceAreIntegers ==
    \A d \in OutputDicts : \A k \in YearPriceKeys \cap DOMAIN d :
        /\ d[k].type = "int"
        /\ d[k] \in GivenIntegers

\* C27: whenever normalize_model_for_site changes a model for a retailer,
\* should_normalize_model answers true for that model and retailer.
C27_ShouldAgreesWithNormalize ==
    ({"normalize", "should"} \subseteq n_done /\ n_result # n_model) => n_should

-----------------------------------------------------------------------------
(* VPNManager (scripts/vpn_manager.py)                                     *)
(*                                                                         *)
(* The lock on VPN_LOCK_FILE is a POSIX record lock: v_lock names the      *)
(* process that owns it.  wg-quick is the environment: each command        *)
(* succeeds ("ok"), returns non-zero ("fail") or runs into the timeout of  *)
(* its subprocess.run call ("timeout", which raises TimeoutExpired).       *)
(***************************************************************************)

\* number of WireGuard configs a manager picks from (constructor argument)
total_configs == 2

config_prefix == "v"

\* interface_name = f"{self.config_prefix}{new_id}"
interface_name(new_id) == config_prefix \o str(new_id)

Interfaces == {interface_name(id) : id \in 1..total_configs}

CommandOutcomes == {"ok", "fail", "timeout"}

\* the interfaces that are up after "wg-quick down <interface>" ended with the
\* outcome: only a successful command takes the interface down
wg_quick_down(up, interface, outcome) ==
    IF outcome = "ok" THEN up \ {interface} ELSE up

\* _acquire_lock for process p: the manager, the owner of the lock and the
\* return value; the wait of up to 60 seconds ends with False when another
\* process owns the lock throughout
acquire_lock(m, lock, p) ==
    IF m.lock_held THEN [mgr |-> m, lock |-> lock, value |-> TRUE]
    ELSE IF lock = "free"
    THEN [mgr |-> [m EXCEPT !.lock_file = "open", !.lock_held = TRUE],
          lock |-> p, value |-> TRUE]
    ELSE [mgr |-> [m EXCEPT !.lock_file = "open"], lock |-> lock, value |-> FALSE]

\* _release_lock for process p
release_lock(m, lock, p) ==
    IF m.lock_file # "None" /\ m.lock_held
    THEN [mgr |-> [m EXCEPT !.lock_file = "None", !.lock_held = FALSE],
          lock |-> IF lock = p THEN "free" ELSE lock]
    ELSE [mgr |-> m, lock |-> lock]

\* disable_vpn for process p, its wg-quick down ending with the outcome
disable_vpn(m, lock, up, p, outcome) ==
    IF m.current_interface # "None"
    THEN LET stopped == [m EXCEPT !.current_interface = "None", !.vpn_enabled = FALSE]
             released == release_lock(stopped, lock, p)
         IN  [mgr |-> released.mgr, lock |-> released.lock,
              up |-> wg_quick_down(up, m.current_interface, outcome)]
    ELSE [mgr |-> m, lock |-> lock, up |-> up]

\* the body of rotate_vpn after the lock was acquired.  left: the interfaces
\* still up after _disable_all_wireguard_interfaces; tracked, stale, started:
\* the outcomes of the down of the tracked interface, of the down of the new
\* interface and of its up; new_id: the config picked at random
rotate_vpn_locked(m, lock, p, left, tracked, new_id, stale, started) ==
    IF m.current_interface # "None" /\ tracked = "timeout"
    THEN \* TimeoutExpired leaves the try block: the except clause releases the lock
         LET released == release_lock(m, lock, p)
         IN  [mgr |-> released.mgr, lock |-> released.lock, up |-> left,
              value |-> FALSE]
    ELSE LET untracked ==
                 IF m.current_interface # "None"
                 THEN [m EXCEPT !.current_interface = "None", !.vpn_enabled = FALSE]
                 ELSE m
             up1 == IF m.current_interface # "None"
                    THEN wg_quick_down(left, m.current_interface, tracked)
                    ELSE left
             up2 == wg_quick_down(up1, interface_name(new_id), stale)
         IN  IF started = "ok"
             THEN [mgr |-> [untracked EXCEPT
                               !.current_interface = interface_name(new_id),
                               !.vpn_enabled = TRUE],
                   lock |-> lock, up |-> up2 \cup {interface_name(new_id)},
                   value |-> TRUE]
             ELSE LET failed == IF started = "fail"
                                THEN [untracked EXCEPT !.vpn_enabled = FALSE]
                                ELSE untracked
                      released == release_lock(failed, lock, p)
                  IN  [mgr |-> released.mgr, lock |-> released.lock, up |-> up2,
                       value |-> FALSE]

\* a process calls rotate_vpn
CallRotateVpn(p) ==
    /\ w_pc = "off"
    /\ v_pc[p] = "idle"
    /\ v_pc' = [v_pc EXCEPT ![p] = "rotate_vpn"]
    /\ UNCHANGED <<v_mgr, v_ret, v_lock, v_up>>
    /\ UNCHANGED <<nvars, avars, pvars, wvars>>

\* rotate_vpn: _acquire_lock returns True
RotateVpnAcquire(p) ==
    /\ v_pc[p] = "rotate_vpn"
    /\ v_mgr[p].lock_held \/ v_lock = "free"
    /\ LET got == acquire_lock(v_mgr[p], v_lock, p)
       IN  /\ v_mgr' = [v_mgr EXCEPT ![p] = got.mgr]
           /\ v_lock' = got.lock
    /\ v_pc' = [v_pc EXCEPT ![p] = "locked"]
    /\ UNCHANGED <<v_ret, v_up>>
    /\ UNCHANGED <<nvars, avars, pvars, wvars>>

\* rotate_vpn: _acquire_lock gives up after its timeout and rotate_vpn
\* returns False
RotateVpnLockTimeout(p) ==
    /\ v_pc[p] = "rotate_vpn"
    /\ ~v_mgr[p].lock_held /\ v_lock # "free"
    /\ LET got == acquire_lock(v_mgr[p], v_lock, p)
       IN  /\ v_mgr' = [v_mgr EXCEPT ![p] = got.mgr]
           /\ v_lock' = got.lock
    /\ v_pc' = [v_pc EXCEPT ![p] = "idle"]
    /\ v_ret' = [v_ret EXCEPT ![p] = [call |-> "rotate_vpn", value |-> "False"]]
    /\ UNCHANGED v_up
    /\ UNCHANGED <<nvars, avars, pvars, wvars>>

\* rotate_vpn: with the lock, the old interfaces are taken down and a new
\* one is brought up.  wg-quick up succeeds only for an interface that is
\* not up already.
RotateVpnSwitch(p) ==
    /\ v_pc[p] = "locked"
    /\ \E left \in SUBSET v_up, tracked, stale, started \in CommandOutcomes,
          new_id \in 1..total_configs :
          LET r == rotate_vpn_locked(v_mgr[p], v_lock, p, left, tracked, new_id,
                                     stale, started)
          IN  /\ (v_mgr[p].current_interface = "None" => tracked = "ok")
              /\ (started = "ok" =>
                     (interface_name(new_id) \notin left \/ stale = "ok"
                      \/ (v_mgr[p].current_interface = interface_name(new_id)
                          /\ tracked = "ok")))
              /\ v_mgr' = [v_mgr EXCEPT ![p] = r.mgr]
              /\ v_lock' = r.lock
              /\ v_up' = r.up
              /\ v_ret' = [v_ret EXCEPT ![p] =
                              [call |-> "rotate_vpn",
                               value |-> IF r.value THEN "True" ELSE "False"]]
    /\ v_pc' = [v_pc EXCEPT ![p] = "idle"]
    /\ UNCHANGED <<nvars, avars, pvars, wvars>>

\* a process calls disable_vpn, which runs to its return
DisableVpn(p) ==
    /\ w_pc = "off"
    /\ v_pc[p] = "idle"
    /\ \E outcome \in {"ok", "fail"} :
          LET r == disable_vpn(v_mgr[p], v_lock, v_up, p, outcome)
          IN  /\ v_mgr' = [v_mgr EXCEPT ![p] = r.mgr]
              /\ v_lock' = r.lock
              /\ v_up' = r.up
    /\ v_ret' = [v_ret EXCEPT ![p] = [call |-> "disable_vpn", value |-> "None"]]
    /\ UNCHANGED v_pc
    /\ UNCHANGED <<nvars, avars, pvars, wvars>>

InitVpn ==
    /\ InitNormalizerIdle
    /\ InitAdaptersIdle
    /\ InitParserIdle
    /\ InitWorkerIdle
    /\ v_mgr = [p \in Procs |-> VPNManager]
    /\ v_pc = [p \in Procs |-> "idle"]
    /\ v_ret = [p \in Procs |-> [call |-> "none", value |-> "None"]]
    /\ v_lock = "free"
    /\ v_up \in SUBSET Interfaces

NextVpn ==
    \E p \in Procs :
        \/ CallRotateVpn(p)
        \/ RotateVpnAcquire(p)
        \/ RotateVpnLockTimeout(p)
        \/ RotateVpnSwitch(p)
        \/ DisableVpn(p)

SpecVpn == InitVpn /\ [][NextVpn]_vars

\* the processes between two calls on their manager
Idle(p) == v_pc[p] = "idle"

\* C28: between the calls of any sequence of rotate_vpn and disable_vpn on
\* one VPNManager, vpn_enabled is true only if current_interface is set and
\* the manager holds the lock (lock held with an open lock file); and after
\* disable_vpn has returned, vpn_enabled is false, current_interface is None
\* and the lock is not held.
C28_EnabledOnlyWithInterfaceAndLock ==
    \A p \in Procs : Idle(p) =>
        /\ v_mgr[p].vpn_enabled =>
              /\ v_mgr[p].current_interface # "None"
              /\ v_mgr[p].lock_held
              /\ v_mgr[p].lock_file = "open"
              /\ v_lock = p
        /\ v_ret[p].call = "disable_vpn" =>
              /\ ~v_mgr[p].vpn_enabled
              /\ v_mgr[p].current_interface = "None"
              /\ ~v_mgr[p].lock_held
              /\ v_lock # p

\* the processes whose manager says it has an active VPN it started
ActiveVpn == {p \in Procs : v_mgr[p].vpn_enabled /\ v_mgr[p].current_interface # "None"}

\* C25: in every interleaving of rotate_vpn and disable_vpn calls by several
\* processes, at most one process at a time has an active VPN it started
\* (vpn_enabled true with a current_interface).
C25_VpnMutualExclusion == Cardinality(ActiveVpn) <= 1

-----------------------------------------------------------------------------
(* Scraper worker (worker/main.py)                                         *)

\* the keys of SCRAPER_SCRIPTS in their order
SCRAPER_SCRIPTS == <<"cargurus-camoufox", "carmax", "autotrader", "truecar", "carvana">>

retailer_key_map ==
    [s \in {"cargurus-camoufox", "carmax", "autotrader", "truecar", "carvana"} |->
        IF s = "cargurus-camoufox" THEN "cargurus" ELSE s]

max_vpn_retries == 3

\* get_vpn_manager(): the worker's manager, or None when create_vpn_manager
\* finds no wg-quick or no sudo
get_vpn_manager == IF w_vpn THEN PyStr(Worker) ELSE PyNone

\* json.dumps of a request value; a dict is written in the order of its keys
RECURSIVE json_dumps(_)
json_dumps(v) ==
    CASE v.type = "str" -> "\"" \o v.value \o "\""
      [] v.type = "int" -> str(v.value)
      [] v.type = "NoneType" -> "null"
      [] v.type = "list" ->
           "[" \o join([i \in 1..Len(v.value) |-> json_dumps(v.value[i])], ", ") \o "]"
      [] v.type = "dict" ->
           "{" \o join([i \in 1..Len(v.order) |->
                          "\"" \o v.order[i] \o "\": " \o json_dumps(v.value[v.order[i]])],
                       ", ") \o "}"

\* "filters" in retailer_data: a key of a dict, a substring of a string
has_filters(retailer_data) ==
    IF retailer_data.type = "str" THEN contains(retailer_data.value, "filters")
    ELSE "filters" \in DOMAIN retailer_data.value

\* trigger_scraper: the scraper_filters handed to run_scraper_and_callback
trigger_scraper_filters(scraper_name, body) ==
    LET vehicle_filters == body.vehicleFilters
    IN  IF body.useRetailerFilters /\ truthy(vehicle_filters)
           /\ "retailers" \in DOMAIN vehicle_filters.value
        THEN LET retailer_data == get(vehicle_filters.value["retailers"].value,
                                      retailer_key_map[scraper_name])
             IN  IF truthy(retailer_data) /\ has_filters(retailer_data)
                 THEN IF retailer_data.type = "str" THEN PyRaise("TypeError")
                      ELSE retailer_data.value["filters"]
                 ELSE PyNone
        ELSE vehicle_filters

\* run_all_scrapers_and_callback: the scraper_filters handed to
\* run_single_scraper
run_all_scraper_filters(scraper_name, body) ==
    LET vehicle_filters == body.vehicleFilters
    IN  IF body.useRetailerFilters /\ truthy(vehicle_filters)
           /\ "retailers" \in DOMAIN vehicle_filters.value
        THEN LET retailer_data == get(vehicle_filters.value["retailers"].value,
                                      retailer_key_map[scraper_name])
             IN  IF truthy(retailer_data) THEN retailer_data ELSE PyNone
        ELSE PyNone

\* the argument the scraper's process is started with (the same code in
\* run_scraper_and_callback and in run_single_scraper)
scraper_input(scraper_name, query, vehicle_filters) ==
    IF scraper_name = "autotrader" /\ truthy(vehicle_filters)
    THEN IF vehicle_filters.type = "str" /\ startswith(vehicle_filters.value, "http")
         THEN vehicle_filters.value
         ELSE json_dumps(PyOrderedDict(<<"structured">>,
                                       "structured" :> vehicle_filters))
    ELSE IF scraper_name \in {"cargurus-camoufox", "truecar", "carmax", "carvana"}
            /\ truthy(vehicle_filters)
    THEN json_dumps(vehicle_filters)
    ELSE "'" \o query \o "'"

\* the query of the requests
WorkerQuery == "GMC Sierra"

Dict1(key, v) == PyOrderedDict(<<key>>, key :> v)

\* the retailers map in the parser's output format: a URL string for
\* AutoTrader, a dict for each other retailer
ParserRetailers ==
    PyOrderedDict(<<"autotrader", "cargurus", "carmax", "carvana", "truecar">>,
        "autotrader" :> PyStr("https://www.autotrader.com/cars-for-sale/gmc/sierra")
        @@ "cargurus" :> Dict1("make", PyStr("GMC"))
        @@ "carmax" :> Dict1("makes", PyList(<<PyStr("GMC")>>))
        @@ "carvana" :> Dict1("year", PyInt(2023))
        @@ "truecar" :> Dict1("make", PyStr("GMC")))

\* the same map without the AutoTrader and CarMax entries
PartialRetailers ==
    PyOrderedDict(<<"cargurus", "carvana", "truecar">>,
        "cargurus" :> Dict1("make", PyStr("GMC"))
        @@ "carvana" :> Dict1("year", PyInt(2023))
        @@ "truecar" :> Dict1("make", PyStr("GMC")))

\* a retailers map whose entries wrap the retailer's dict in a "filters" key
WrappedRetailers ==
    PyOrderedDict(<<"cargurus", "carmax">>,
        "cargurus" :> Dict1("filters", Dict1("make", PyStr("GMC")))
        @@ "carmax" :> Dict1("filters", Dict1("makes", PyList(<<PyStr("GMC")>>))))

\* request bodies: vehicleFilters and useRetailerFilters
Bodies ==
    {[vehicleFilters |-> Dict1("retailers", ParserRetailers), useRetailerFilters |-> TRUE],
     [vehicleFilters |-> Dict1("retailers", PartialRetailers), useRetailerFilters |-> TRUE],
     [vehicleFilters |-> Dict1("retailers", WrappedRetailers), useRetailerFilters |-> TRUE],
     [vehicleFilters |-> Dict1("make", PyStr("GMC")), useRetailerFilters |-> FALSE],
     [vehicleFilters |-> PyNone, useRetailerFilters |-> FALSE]}

ParserFormatBody ==
    [vehicleFilters |-> Dict1("retailers", ParserRetailers), useRetailerFilters |-> TRUE]

\* a scraper process started for a scraper by a job ("all": the run-all job,
\* "single": the /run/{scraper_name} job, "earlier": a job before this run)
Invocation(job, scraper_name) == [job |-> job, scraper |-> scraper_name]

\* a listing record scraped by the invocation
Listing(inv) == [type |-> "listing", by |-> inv]

\* the text a scraper prints for its listings (also written to its
\* /tmp/scraper_output_<pid>.json), given as the value eval() makes of it
ListingsOutput(inv) == PyList(<<Listing(inv)>>)

\* an {"error": message} object
ErrorRecord(message) == Dict1("error", PyStr(message))

StdoutEmpty == [kind |-> "empty"]
Stdout(value) == [kind |-> "text", eval |-> value]

Exit(returncode, stderr, stdout, wrote) ==
    [status |-> "exit", returncode |-> returncode, stderr |-> stderr,
     stdout |-> stdout, wrote |-> wrote]

\* what subprocess.run of a scraper can come back with (a list of the
\* cases): an exception, the
\* timeout, or an exit code with stderr, the stripped stdout (as the value
\* eval() makes of it, a raise for text that is no Python expression) and
\* whether the process wrote its listings to a temp file
ProcessResults(inv) ==
    <<[status |-> "raise"], [status |-> "timeout"],
     Exit(1, "", StdoutEmpty, FALSE),
     Exit(1, "Traceback (most recent call last): KeyError", StdoutEmpty, FALSE),
     Exit(1, "HTTP 403 Forbidden", StdoutEmpty, FALSE),
     Exit(0, "", Stdout(ListingsOutput(inv)), TRUE),
     Exit(0, "", StdoutEmpty, TRUE),
     Exit(0, "", StdoutEmpty, FALSE),
     Exit(0, "", Stdout(PyNone), FALSE),
     Exit(0, "", Stdout(PyList(<<>>)), FALSE),
     Exit(0, "", Stdout(PyList(<<ErrorRecord("Bot detection - retry with VPN")>>)), FALSE),
     Exit(0, "", Stdout(PyList(<<ErrorRecord("No listings found")>>)), FALSE),
     Exit(0, "", Stdout(ErrorRecord("No CarMax listings found for 'Filter search'")), FALSE),
     Exit(0, "", Stdout(PyRaise("NameError")), FALSE)>>

\* the cases of ProcessResults a run draws from: all of them on a worker
\* without VPN manager that gets the run-all request only; the listings, the
\* bot detections and the plain failures on a worker with a VPN manager; the
\* listings and the plain failure on a worker that gets both requests
ProcessCases ==
    IF w_vpn THEN {2, 3, 5, 6, 9, 11}
    ELSE IF s_pc = "off" THEN 1..14
    ELSE {3, 6}

\* the temp files after the process has run
temp_files_after(tmp, proc, inv) ==
    IF proc.status = "exit" /\ proc.wrote THEN Append(tmp, ListingsOutput(inv)) ELSE tmp

\* any(indicator in error_msg.lower()) for the stderr of a failed scraper
bot_in_stderr(error_msg) ==
    \E indicator \in {"403", "forbidden", "access denied", "bot detected", "blocked"} :
        contains(lower(error_msg), indicator)

\* any(indicator in error.lower()) for the error record of a scraper
bot_in_error(error) ==
    \E indicator \in {"403", "forbidden", "bot", "blocked", "access denied",
                      "restricted"} :
        contains(lower(error), indicator)

\* the stdout of the process or, when it is empty, the newest temp file,
\* which is removed
recovered_output(proc, tmp) ==
    IF proc.stdout.kind # "empty" THEN [listings |-> proc.stdout, tmp |-> tmp]
    ELSE IF tmp # <<>>
    THEN [listings |-> Stdout(tmp[Len(tmp)]), tmp |-> SubSeq(tmp, 1, Len(tmp) - 1)]
    ELSE [listings |-> StdoutEmpty, tmp |-> tmp]

is_error_list(data) ==
    /\ data.type = "list"
    /\ Len(data.value) > 0
    /\ data.value[1].type = "dict"
    /\ "error" \in DOMAIN data.value[1].value

\* one pass of the loop of run_single_scraper after the scraper's process
\* came back: the loop continues (next = "continue") or the call returns
\* value; bot tells whether the pass ended in bot detection; tmp are the
\* temp files left
single_scraper_attempt(proc, tmp, attempt, vpn) ==
    LET can_retry == attempt < max_vpn_retries /\ truthy(vpn)
        return(value, bot, files) ==
            [next |-> "return", value |-> value, bot |-> bot, tmp |-> files]
        retry(files) ==
            IF can_retry
            THEN [next |-> "continue", value |-> PyNone, bot |-> TRUE, tmp |-> files]
            ELSE return(PyList(<<>>), TRUE, files)
    IN  IF proc.status # "exit" THEN return(PyList(<<>>), FALSE, tmp)
        ELSE IF proc.returncode # 0
        THEN IF bot_in_stderr(IF proc.stderr # "" THEN proc.stderr ELSE "Unknown error")
             THEN retry(tmp)
             ELSE return(PyList(<<>>), FALSE, tmp)
        ELSE LET rec == recovered_output(proc, tmp)
                 data == rec.listings.eval
             IN  IF rec.listings.kind = "empty" THEN return(PyList(<<>>), FALSE, rec.tmp)
                 ELSE IF data.type = "raise" THEN return(PyList(<<>>), FALSE, rec.tmp)
                 ELSE IF data = PyNone THEN retry(rec.tmp)
                 ELSE IF is_error_list(data)
                 THEN IF bot_in_error(data.value[1].value["error"].value)
                      THEN retry(rec.tmp)
                      ELSE return(PyList(<<>>), FALSE, rec.tmp)
                 ELSE return(IF truthy(data) THEN data ELSE PyList(<<>>), FALSE, rec.tmp)

\* all_results.extend(result): the items of a list, the keys of a dict
extend(all_results, result) ==
    IF result.type = "list" THEN all_results \o result.value
    ELSE all_results \o [i \in 1..Len(result.order) |-> PyStr(result.order[i])]

Callback(job_id, scraper, status, data) ==
    [jobId |-> job_id, scraper |-> scraper, status |-> status, data |-> data]

\* run_scraper_and_callback after the scraper's process came back: the
\* callback it posts and the temp files left
scraper_callback(scraper_name, proc, tmp) ==
    LET error == Callback("single", scraper_name, "error", PyNone)
    IN  IF proc.status # "exit" \/ proc.returncode # 0
        THEN [callback |-> error, tmp |-> tmp]
        ELSE LET rec == recovered_output(proc, tmp)
                 data == rec.listings.eval
             IN  IF rec.listings.kind = "empty" \/ data.type = "raise"
                    \/ is_error_list(data) \/ data = PyNone
                 THEN [callback |-> error, tmp |-> rec.tmp]
                 ELSE [callback |-> Callback("single", scraper_name, "success", data),
                       tmp |-> rec.tmp]

\* the combined callback of the run-all job
combined_callback(all_results) ==
    IF Len(all_results) > 0
    THEN Callback("all", "all", "success", PyList(all_results))
    ELSE Callback("all", "all", "error", PyNone)

NotLaunched == "not launched"

\* a temp file left by a scraper of an earlier job
StaleFile == ListingsOutput(Invocation("earlier", "carmax"))

InitWorker ==
    /\ InitNormalizerIdle
    /\ InitAdaptersIdle
    /\ InitParserIdle
    /\ v_pc = [p \in Procs |-> "idle"]
    /\ v_ret = [p \in Procs |-> [call |-> "none", value |-> "None"]]
    /\ \/ /\ w_vpn = FALSE
          /\ w_body \in Bodies
          /\ w_tmp = <<>>
          /\ s_pc = "idle"
          /\ v_mgr = [p \in Procs |-> VPNManager]
          /\ v_lock = "free"
          /\ v_up = {}
       \/ /\ w_vpn = FALSE
          /\ w_body = ParserFormatBody
          /\ w_tmp \in {<<>>, <<StaleFile>>}
          /\ s_pc = "off"
          /\ v_mgr = [p \in Procs |-> VPNManager]
          /\ v_lock = "free"
          /\ v_up = {}
       \/ /\ w_vpn = TRUE
          /\ w_body = ParserFormatBody
          /\ w_tmp = <<>>
          /\ s_pc = "off"
          /\ \/ /\ v_mgr = [p \in Procs |-> VPNManager]
                /\ v_lock = "free"
                /\ v_up = {}
             \/ /\ v_mgr = [p \in Procs |->
                              IF p = Worker THEN VPNManager
                              ELSE [current_interface |-> interface_name(1),
                                    vpn_enabled |-> TRUE, lock_file |-> "open",
                                    lock_held |-> TRUE]]
                /\ v_lock = "p1"
                /\ v_up = {interface_name(1)}
    /\ w_pc = "idle"
    /\ w_scraper = 0
    /\ w_attempt = 0
    /\ w_launches = <<>>
    /\ w_returned = PyNone
    /\ w_inputs = [i \in 1..Len(SCRAPER_SCRIPTS) |-> NotLaunched]
    /\ w_all_results = <<>>
    /\ w_errors = <<>>
    /\ w_callbacks = <<>>
    /\ s_scraper = ""
    /\ s_input = NotLaunched

\* POST /run-all: the request is accepted and run_all_scrapers_and_callback
\* starts as a background task
TriggerAllScrapers ==
    /\ w_pc = "idle"
    /\ w_pc' = "loop"
    /\ w_scraper' = 1
    /\ w_attempt' = 0
    /\ UNCHANGED <<w_vpn, w_body, w_launches, w_returned, w_inputs, w_all_results,
                   w_errors, w_callbacks, w_tmp, s_pc, s_scraper, s_input>>
    /\ UNCHANGED <<nvars, avars, pvars, vvars>>

\* one pass of the loop of run_single_scraper inside the loop of
\* run_all_scrapers_and_callback: the scraper's process is started and its
\* result handled, up to the next rotate_vpn call, the next scraper or the
\* end of the loop
RunSingleScraperAttempt ==
    /\ w_pc = "loop"
    /\ v_pc[Worker] = "idle"
    /\ LET scraper_name == SCRAPER_SCRIPTS[w_scraper]
           scraper_filters == run_all_scraper_filters(scraper_name, w_body)
           inv == Invocation("all", scraper_name)
           launch == [attempt |-> w_attempt,
                      vpn |-> /\ v_ret[Worker] = [call |-> "rotate_vpn", value |-> "True"]
                              /\ v_mgr[Worker].vpn_enabled
                              /\ v_mgr[Worker].current_interface \in v_up]
       IN  \E case \in ProcessCases :
              LET proc == ProcessResults(inv)[case]
                  r == single_scraper_attempt(proc, temp_files_after(w_tmp, proc, inv),
                                              w_attempt, get_vpn_manager)
              IN  /\ w_inputs' = [w_inputs EXCEPT ![w_scraper] =
                                     scraper_input(scraper_name, WorkerQuery,
                                                   scraper_filters)]
                  /\ w_launches' = (IF w_attempt = 0 THEN <<>> ELSE w_launches)
                                   \o <<launch @@ [bot |-> r.bot]>>
                  /\ w_tmp' = r.tmp
                  /\ IF r.next = "continue"
                     THEN /\ w_attempt' = w_attempt + 1
                          /\ v_pc' = [v_pc EXCEPT ![Worker] = "rotate_vpn"]
                          /\ UNCHANGED <<w_pc, w_scraper, w_returned, w_all_results>>
                     ELSE /\ w_returned' = r.value
                          /\ w_all_results' =
                               IF truthy(r.value) THEN extend(w_all_results, r.value)
                               ELSE w_all_results
                          /\ w_attempt' = 0
                          /\ IF w_scraper < Len(SCRAPER_SCRIPTS)
                             THEN w_scraper' = w_scraper + 1 /\ w_pc' = "loop"
                             ELSE w_scraper' = w_scraper /\ w_pc' = "cleanup"
                          /\ UNCHANGED v_pc
    /\ UNCHANGED <<w_vpn, w_body, w_errors, w_callbacks, s_pc, s_scraper, s_input>>
    /\ UNCHANGED <<v_mgr, v_ret, v_lock, v_up>>
    /\ UNCHANGED <<nvars, avars, pvars>>

\* the end of run_all_scrapers_and_callback: the VPN cleanup and the
\* combined callback.  VPNManager has no method cleanup_all, so with a
\* manager the call raises AttributeError and the task ends there.
RunAllFinish ==
    /\ w_pc = "cleanup"
    /\ IF truthy(get_vpn_manager)
       THEN /\ w_pc' = "raised"
            /\ UNCHANGED w_callbacks
       ELSE /\ w_pc' = "done"
            /\ w_callbacks' = Append(w_callbacks, combined_callback(w_all_results))
    /\ w_launches' = <<>>
    /\ UNCHANGED <<w_vpn, w_body, w_scraper, w_attempt, w_returned, w_inputs,
                   w_all_results, w_errors, w_tmp, s_pc, s_scraper, s_input>>
    /\ UNCHANGED <<nvars, avars, pvars, vvars>>

\* POST /run/{scraper_name} with the same body, sent (on a worker that
\* gets both requests) after the run-all job has ended: an unknown scraper is refused, otherwise
\* run_scraper_and_callback starts as a background task
TriggerScraper ==
    /\ s_pc = "idle"
    /\ w_pc \in {"done", "raised"}
    /\ \E scraper_name \in {SCRAPER_SCRIPTS[i] : i \in 1..Len(SCRAPER_SCRIPTS)} \cup {"kbb"} :
          /\ s_scraper' = scraper_name
          /\ s_pc' = IF scraper_name = "kbb" THEN "refused" ELSE "running"
    /\ UNCHANGED <<w_vpn, w_body, w_pc, w_scraper, w_attempt, w_launches, w_returned,
                   w_inputs, w_all_results, w_errors, w_callbacks, w_tmp, s_input>>
    /\ UNCHANGED <<nvars, avars, pvars, vvars>>

\* run_scraper_and_callback: the scraper's process is started, its result
\* handled and the callback posted
RunScraperAndCallback ==
    /\ s_pc = "running"
    /\ LET scraper_filters == trigger_scraper_filters(s_scraper, w_body)
           inv == Invocation("single", s_scraper)
       IN  \E case \in ProcessCases :
              LET proc == ProcessResults(inv)[case]
                  r == scraper_callback(s_scraper, proc,
                                        temp_files_after(w_tmp, proc, inv))
              IN  /\ s_input' = scraper_input(s_scraper, WorkerQuery, scraper_filters)
                  /\ w_callbacks' = Append(w_callbacks, r.callback)
                  /\ w_tmp' = r.tmp
    /\ s_pc' = "done"
    /\ UNCHANGED <<w_vpn, w_body, w_pc, w_scraper, w_attempt, w_launches, w_returned,
                   w_inputs, w_all_results, w_errors, s_scraper>>
    /\ UNCHANGED <<nvars, avars, pvars, vvars>>

NextWorker ==
    \/ TriggerAllScrapers
    \/ RunSingleScraperAttempt
    \/ RotateVpnAcquire(Worker)
    \/ RotateVpnLockTimeout(Worker)
    \/ RotateVpnSwitch(Worker)
    \/ RunAllFinish
    \/ TriggerScraper
    \/ RunScraperAndCallback

SpecWorker == InitWorker /\ [][NextWorker]_vars

-----------------------------------------------------------------------------
(* Properties of the worker                                                *)

\* the run-all job is over: its task returned or raised
RunAllOver == w_pc \in {"done", "raised"}

\* the combined callbacks posted so far
CombinedCallbacks == {i \in DOMAIN w_callbacks : w_callbacks[i].scraper = "all"}

\* C22: a run of run_all_scrapers_and_callback that is over has posted
\* exactly one combined callback (scraper "all", status success or error)
\* for its job and has started each of the five scrapers, with or without a
\* VPN manager.
C22_RunAllPostsOneCallback ==
    RunAllOver =>
        /\ Cardinality(CombinedCallbacks) = 1
        /\ \A i \in CombinedCallbacks :
              /\ w_callbacks[i].jobId = "all"
              /\ w_callbacks[i].status \in {"success", "error"}
        /\ \A i \in DOMAIN w_inputs : w_inputs[i] # NotLaunched

\* C23: a combined callback with status success carries a non-empty list of
\* listing records produced by scrapers, one with status error carries data
\* None and is sent only when no scraper returned a listing, and every
\* return value of run_single_scraper is a list.
C23_SuccessOnlyWithListings ==
    /\ \A i \in CombinedCallbacks :
          LET callback == w_callbacks[i]
          IN  /\ callback.status = "success" =>
                    /\ callback.data.type = "list"
                    /\ callback.data.value # <<>>
                    /\ \A k \in DOMAIN callback.data.value :
                          callback.data.value[k].type = "listing"
              /\ callback.status = "error" =>
                    /\ callback.data = PyNone
                    /\ w_all_results = <<>>
    /\ w_returned # PyNone => w_returned.type = "list"

\* C24: run_single_scraper starts the scraper at most 4 times; a launch
\* after the first happens only when the previous one ended in bot detection
\* and a VPN manager exists, and it runs with a VPN interface brought up by
\* the rotation made for it; a launch that did not end in bot detection is
\* the last one.
C24_RetryOnlyWithRotatedVpn ==
    /\ Len(w_launches) <= max_vpn_retries + 1
    /\ \A i \in DOMAIN w_launches :
          /\ w_launches[i].attempt = i - 1
          /\ i > 1 => /\ w_launches[i - 1].bot
                      /\ w_vpn
                      /\ w_launches[i].vpn
          /\ (i < Len(w_launches)) => w_launches[i].bot

\* C26: when a run-all job in which the VPN was rotated is over, the worker's
\* manager has no interface and no lock left and the combined callback has
\* been sent.
C26_VpnDownBeforeCallback ==
    (RunAllOver /\ v_ret[Worker].call = "rotate_vpn") =>
        /\ ~v_mgr[Worker].vpn_enabled
        /\ v_mgr[Worker].current_interface = "None"
        /\ ~v_mgr[Worker].lock_held
        /\ v_lock # Worker
        /\ CombinedCallbacks # {}

\* the request bodies C29 is about: a retailers map in the parser's output
\* format with useRetailerFilters true
ParserFormatBodies ==
    {body \in Bodies :
        /\ body.useRetailerFilters
        /\ body.vehicleFilters.value["retailers"] \in {ParserRetailers, PartialRetailers}}

\* C29: for a body holding a retailers map in the parser's output format
\* with useRetailerFilters true, the process POST /run/{scraper_name}
\* starts for a scraper gets the same input as the process POST /run-all
\* started for that scraper.
C29_EndpointsHandSameInput ==
    (s_pc = "done" /\ w_body \in ParserFormatBodies) =>
        \A i \in DOMAIN w_inputs :
            SCRAPER_SCRIPTS[i] = s_scraper => s_input = w_inputs[i]

\* the scraper whose run_single_scraper call returned last
LastReturned ==
    SCRAPER_SCRIPTS[IF w_pc = "loop" THEN w_scraper - 1 ELSE w_scraper]

\* C30: the listings a job attributes to a scraper were produced by the
\* process that job started for that scraper: those run_single_scraper
\* returned for the run-all job and those in the callback of a
\* single-scraper job.
C30_ListingsFromOwnInvocation ==
    /\ (w_returned # PyNone /\ w_returned.type = "list") =>
          \A k \in DOMAIN w_returned.value :
              w_returned.value[k].type = "listing" =>
                  w_returned.value[k].by = Invocation("all", LastReturned)
    /\ \A i \in DOMAIN w_callbacks :
          (w_callbacks[i].scraper # "all" /\ w_callbacks[i].status = "success") =>
              \A k \in DOMAIN w_callbacks[i].data.value :
                  w_callbacks[i].data.value[k].by = Invocation("single", s_scraper)

====
